---- MODULE Spec2Model ----
(***************************************************************************)
(* GNG-Lite (gng_lite_fixed_point.py): the bounded-memory Growing Neural   *)
(* Gas engine in its Q16.16 fixed-point representation.                    *)
(*                                                                         *)
(* The engine object is a record `self`; every method of GNGLite is an     *)
(* operator from the record before the call to the record after it.        *)
(* Arrays are indexed from 0 as in the source and keep their allocated     *)
(* length (max_nodes, max_edges), stale slots included.                    *)
(***************************************************************************)
EXTENDS Integers, Sequences, FiniteSets, TLC

\* ------------------------------------------------------------------ bounds
\* Number of executed train_step calls explored.
MaxIter == 3
\* Number of initialize calls explored (train() initializes again whenever it
\* finds the network empty).
MaxInit == 1
\* Configurations explored: max_nodes in 2..MaxNodesCap, max_edges in
\* 0..MaxEdgesCap, max_age in 0..MaxAgeCap, lambda_ in 0..MaxLambdaCap.
MaxNodesCap == 3
MaxEdgesCap == 2
MaxAgeCap == 1
MaxLambdaCap == 2
\* The long run: epochs per train() call, and executed train_step calls.
AgingEpochs == 16
MaxAgingSteps == 65537
\* Executed train_step calls on the four-node network.
MaxWideSteps == 4
\* Executed train_step calls before a train_with_pruning call.
MaxPruneSteps == 2
\* The arguments of the arithmetic functions: how far they go from the pivot
\* values (range limits, 1.0, 0) and from the pivot exponents.
MaxOffset == 2

\* ------------------------------------------------- fixed-point arithmetic
\* Every intermediate value below stays inside a signed 32-bit integer: the
\* 64-bit products of the source are carried as 16-bit limbs.
FIXED_POINT_BITS == 16
FIXED_POINT_SCALE == 2^FIXED_POINT_BITS
FIXED_POINT_MAX == 2147483647
FIXED_POINT_MIN == -FIXED_POINT_MAX - 1

Max2(a, b) == IF a >= b THEN a ELSE b
Min2(a, b) == IF a <= b THEN a ELSE b

\* Python's int(): truncation toward zero of num / den, den > 0.
TruncDiv(num, den) == IF num >= 0 THEN num \div den ELSE -((-num) \div den)

\* A Python float is m * 2^e, carried as the record [m |-> m, e |-> e].
Float(m, e) == [m |-> m, e |-> e]

\* val = int(x * FIXED_POINT_SCALE), then max(MIN, min(MAX, val)): the value
\* returned when int() does not raise (see float_to_fixed_call).
float_to_fixed(x) ==
  LET k == x.e + FIXED_POINT_BITS
  IN IF x.m = 0 THEN 0
     ELSE IF k <= 0
          THEN (IF -k >= 31 THEN 0 ELSE TruncDiv(x.m, 2^(-k)))
          ELSE IF k >= 31
               THEN (IF x.m > 0 THEN FIXED_POINT_MAX ELSE FIXED_POINT_MIN)
               ELSE IF x.m > FIXED_POINT_MAX \div 2^k THEN FIXED_POINT_MAX
                    ELSE IF x.m < -(2^(31 - k)) THEN FIXED_POINT_MIN
                         ELSE x.m * 2^k

\* floor(al * bl / 2^16) for two 16-bit limbs 0 <= al, bl < 2^16.
LimbMulHigh(al, bl) ==
  LET a1 == al \div 256
      a0 == al % 256
  IN (a1 * bl + (a0 * bl) \div 256) \div 256

\* (int64(a) * int64(b)) >> FIXED_POINT_BITS for int32 a and b, as the pair
\* hi, lo with value hi * 2^16 + lo and 0 <= lo < 2^16 (>> is the floor).
MulShift(a, b) ==
  LET ah == a \div FIXED_POINT_SCALE
      al == a % FIXED_POINT_SCALE
      bh == b \div FIXED_POINT_SCALE
      bl == b % FIXED_POINT_SCALE
      t2 == ah * bl
      t3 == al * bh
      lo_sum == (t2 % FIXED_POINT_SCALE) + (t3 % FIXED_POINT_SCALE) + LimbMulHigh(al, bl)
  IN [hi |-> ah * bh + (t2 \div FIXED_POINT_SCALE) + (t3 \div FIXED_POINT_SCALE)
               + (lo_sum \div FIXED_POINT_SCALE),
      lo |-> lo_sum % FIXED_POINT_SCALE]

\* max(FIXED_POINT_MIN, min(FIXED_POINT_MAX, result)) of hi * 2^16 + lo.
ClampWide(w) ==
  IF w.hi >= 32768 THEN FIXED_POINT_MAX
  ELSE IF w.hi < -32768 THEN FIXED_POINT_MIN
       ELSE w.hi * FIXED_POINT_SCALE + w.lo

\* A Python int hi * 2^16 + lo that fits 32 bits.
WideValue(w) == w.hi * FIXED_POINT_SCALE + w.lo

\* fixed_mul that stores the shifted product in 32 bits without the clamp.
fixed_mul_Wrapping(a, b) ==
  (((MulShift(a, b).hi + 32768) % 65536) - 32768) * FIXED_POINT_SCALE
    + MulShift(a, b).lo

fixed_mul(a, b) == ClampWide(MulShift(a, b))

\* fixed_to_float that divides by half the scale.
fixed_to_float_HalfScale(x) == Float(x, -(FIXED_POINT_BITS - 1))

\* x / FIXED_POINT_SCALE: the true division of an int32 by 2^16 is exact in a
\* 64-bit float.
fixed_to_float(x) == Float(x, -FIXED_POINT_BITS)

\* The number of bits of |m|, for |m| < 2^31.
RECURSIVE BitLength(_)
BitLength(m) ==
  IF m = 0 THEN 0
  ELSE IF m < 0 THEN BitLength(-m)
       ELSE 1 + BitLength(m \div 2)

\* x * FIXED_POINT_SCALE is a 64-bit float product: m * 2^(e + 16) with
\* |m| < 2^31 is infinite when it reaches 2^1024, and int() of an infinite
\* float raises OverflowError.
FLOAT_MAX_EXP == 1024
ScaledIsInfinite(x) == BitLength(x.m) + x.e + FIXED_POINT_BITS > FLOAT_MAX_EXP

\* The result of the call float_to_fixed(x).
float_to_fixed_call(x) ==
  IF ScaledIsInfinite(x) THEN [raised |-> "OverflowError", value |-> "None"]
  ELSE [raised |-> "none", value |-> float_to_fixed(x)]

\* The binary long division of r * 2^bits by den, for 0 <= r < den: the
\* quotient digits so far are q.
RECURSIVE DivBits(_, _, _, _)
DivBits(q, r, den, bits) ==
  IF bits = 0 THEN [q |-> q, r |-> r]
  ELSE IF r >= den - r
       THEN DivBits(2 * q + 1, r - (den - r), den, bits - 1)
       ELSE DivBits(2 * q, 2 * r, den, bits - 1)

\* (a << FIXED_POINT_BITS) // den and the remainder, for den > 0: the quotient
\* is hi * 2^16 + lo with 0 <= lo < 2^16.
ShiftDivMod(a, den) ==
  LET low == DivBits(0, a % den, den, FIXED_POINT_BITS)
  IN [hi |-> a \div den, lo |-> low.q, rem |-> low.r]

\* (a << FIXED_POINT_BITS) // b for b < 0, clamped: the floor of a negative
\* ratio is minus the ceiling of (a << 16) / -b.
ShiftDivNegative(a, b) ==
  IF b = FIXED_POINT_MIN
  THEN -(a \div 32768 + (IF a % 32768 = 0 THEN 0 ELSE 1))
  ELSE LET w == ShiftDivMod(a, -b)
           low == -(w.lo + (IF w.rem = 0 THEN 0 ELSE 1))
       IN IF w.hi < -32768 THEN FIXED_POINT_MAX
          ELSE ClampWide([hi |-> -w.hi + low \div FIXED_POINT_SCALE,
                          lo |-> low % FIXED_POINT_SCALE])

\* fixed_div whose division truncates toward zero instead of flooring.
fixed_div_Truncating(a, b) ==
  IF b = 0 THEN (IF a >= 0 THEN FIXED_POINT_MAX ELSE FIXED_POINT_MIN)
  ELSE IF b > 0
       THEN IF a < 0 /\ ShiftDivMod(a, b).rem # 0
                     /\ ClampWide(ShiftDivMod(a, b)) < FIXED_POINT_MAX
            THEN ClampWide(ShiftDivMod(a, b)) + 1
            ELSE ClampWide(ShiftDivMod(a, b))
       ELSE IF a > 0 /\ b # FIXED_POINT_MIN /\ ShiftDivMod(a, -b).rem # 0
            THEN ShiftDivNegative(a, b) + 1
            ELSE ShiftDivNegative(a, b)

fixed_div(a, b) ==
  IF b = 0 THEN (IF a >= 0 THEN FIXED_POINT_MAX ELSE FIXED_POINT_MIN)
  ELSE IF b > 0 THEN ClampWide(ShiftDivMod(a, b))
       ELSE ShiftDivNegative(a, b)

\* (guess + quotient) >> 1.
FloorAverage(g, q) == (g \div 2) + (q \div 2) + (((g % 2) + (q % 2)) \div 2)

Abs(v) == IF v < 0 THEN -v ELSE v

\* for _ in range(10)
SQRT_ITERATIONS == 10

\* The loop of fixed_sqrt without the `if abs(new_guess - guess) < 2: break`.
RECURSIVE Newton_NoEarlyStop(_, _, _)
Newton_NoEarlyStop(x, guess, new_guesses) ==
  IF Len(new_guesses) = SQRT_ITERATIONS
  THEN [value |-> guess, new_guesses |-> new_guesses]
  ELSE Newton_NoEarlyStop(x, FloorAverage(guess, fixed_div(x, guess)),
                          Append(new_guesses,
                                 FloorAverage(guess, fixed_div(x, guess))))

\* The loop of fixed_sqrt from the current guess on; new_guesses are the
\* values of new_guess that the iterations run so far have computed.
RECURSIVE Newton(_, _, _)
Newton(x, guess, new_guesses) ==
  IF Len(new_guesses) = SQRT_ITERATIONS
  THEN [value |-> guess, new_guesses |-> new_guesses]
  ELSE LET new_guess == FloorAverage(guess, fixed_div(x, guess))
       IN IF Abs(new_guess - guess) < 2
          THEN [value |-> guess, new_guesses |-> Append(new_guesses, new_guess)]
          ELSE Newton(x, new_guess, Append(new_guesses, new_guess))

\* guess = x >> 1; if guess == 0: guess = 1
FirstGuess(x) == IF x \div 2 = 0 THEN 1 ELSE x \div 2

\* fixed_sqrt(x) with the new_guess values it went through.
SqrtRun(x) ==
  IF x <= 0 THEN [value |-> 0, new_guesses |-> << >>]
  ELSE Newton(x, FirstGuess(x), << >>)

fixed_sqrt(x) == SqrtRun(x).value

\* a + b stored into an int32 array element: two's complement wrap-around.
AddInt32(a, b) ==
  IF b > 0 /\ a > FIXED_POINT_MAX - b
  THEN (a - FIXED_POINT_MAX - 1) + (b - FIXED_POINT_MAX - 1)
  ELSE IF b < 0 /\ a < FIXED_POINT_MIN - b
       THEN (a + FIXED_POINT_MAX + 1) + (b + FIXED_POINT_MAX + 1)
       ELSE a + b

\* A value stored into a uint16 array element.
WrapUint16(v) == v % 65536

\* ---------------------------------------------------------- configuration
FEATURE_DIM == 2
\* float_to_fixed of the default learning parameters 0.05, 0.0006, 0.5, 0.995.
EPS_W == 3276
EPS_N == 39
ALPHA_FIXED == 32768
BETA_FIXED == 65208

Dims == 1..FEATURE_DIM

Configs ==
  [max_nodes : 2..MaxNodesCap, max_edges : 0..MaxEdgesCap,
   max_age : 0..MaxAgeCap, lambda_ : 0..MaxLambdaCap]

\* The data set handed to initialize/train: float vectors.
Data ==
  << <<Float(0, 0), Float(0, 0)>>,
     <<Float(131073, -17), Float(131073, -17)>>,
     <<Float(131073, -17), Float(-3, -17)>> >>

Samples == {Data[i] : i \in 1..Len(Data)}

\* ------------------------------------------------------------------ state
VARIABLES
  cfg,         \* self.cfg
  n_nodes,     \* self.n_nodes
  n_edges,     \* self.n_edges
  iteration,   \* self.iteration
  weights,     \* self.weights   [0..max_nodes-1 -> [Dims -> int32]]
  errors,      \* self.errors    [0..max_nodes-1 -> int32]
  edge_nodes,  \* self.edge_nodes [0..max_edges-1 -> <<n1, n2>>]
  edge_ages,   \* self.edge_ages  [0..max_edges-1 -> uint16]
  n_init,      \* how many times initialize has been called
  pre,         \* the engine as it was when the last call started
  call,        \* the last call: its method and its argument
  ret          \* what the last call returned or raised

vars == <<cfg, n_nodes, n_edges, iteration, weights, errors, edge_nodes, edge_ages,
          n_init, pre, call, ret>>

\* The engine object as one record.
Self ==
  [cfg |-> cfg, n_nodes |-> n_nodes, n_edges |-> n_edges, iteration |-> iteration,
   weights |-> weights, errors |-> errors, edge_nodes |-> edge_nodes,
   edge_ages |-> edge_ages]

\* GNGLite.__init__
Construct(c) ==
  [cfg |-> c, n_nodes |-> 0, n_edges |-> 0, iteration |-> 0,
   weights |-> [i \in 0..c.max_nodes - 1 |-> [d \in Dims |-> 0]],
   errors |-> [i \in 0..c.max_nodes - 1 |-> 0],
   edge_nodes |-> [i \in 0..c.max_edges - 1 |-> <<0, 0>>],
   edge_ages |-> [i \in 0..c.max_edges - 1 |-> 0]]

\* ---------------------------------------------------------- topology store
EdgeAt(st, n1, n2) ==
  {i \in 0..st.n_edges - 1 : st.edge_nodes[i][1] = n1 /\ st.edge_nodes[i][2] = n2}

FirstOf(S) == CHOOSE i \in S : \A j \in S : i <= j

\* add_edge without the `if self.n_edges < self.cfg.max_edges` test.
add_edge_NoCapacityCheck(st, a, b) ==
  IF a = b THEN st
  ELSE LET n1 == Min2(a, b)
           n2 == Max2(a, b)
       IN IF EdgeAt(st, n1, n2) # {}
          THEN [st EXCEPT !.edge_ages[FirstOf(EdgeAt(st, n1, n2))] = 0]
          ELSE [st EXCEPT !.edge_nodes = [i \in DOMAIN st.edge_nodes |->
                                            IF i = st.n_edges THEN <<n1, n2>>
                                            ELSE st.edge_nodes[i]],
                          !.n_edges = st.n_edges + 1]

\* add_edge that, on a full list, stores the new pair over the last slot.
add_edge_OverwriteLast(st, a, b) ==
  IF a = b THEN st
  ELSE LET n1 == Min2(a, b)
           n2 == Max2(a, b)
       IN IF EdgeAt(st, n1, n2) # {}
          THEN [st EXCEPT !.edge_ages[FirstOf(EdgeAt(st, n1, n2))] = 0]
          ELSE IF st.n_edges < st.cfg.max_edges
               THEN [st EXCEPT !.edge_nodes[st.n_edges] = <<n1, n2>>,
                               !.edge_ages[st.n_edges] = 0,
                               !.n_edges = st.n_edges + 1]
               ELSE IF st.n_edges = 0 THEN st
                    ELSE [st EXCEPT !.edge_nodes[st.n_edges - 1] = <<n1, n2>>,
                                    !.edge_ages[st.n_edges - 1] = 0]

\* add_edge without the `if n1 > n2: n1, n2 = n2, n1` swap.
add_edge_NoSwap(st, a, b) ==
  IF a = b THEN st
  ELSE IF EdgeAt(st, a, b) # {}
       THEN [st EXCEPT !.edge_ages[FirstOf(EdgeAt(st, a, b))] = 0]
       ELSE IF st.n_edges < st.cfg.max_edges
            THEN [st EXCEPT !.edge_nodes[st.n_edges] = <<a, b>>,
                            !.edge_ages[st.n_edges] = 0,
                            !.n_edges = st.n_edges + 1]
            ELSE st

add_edge(st, a, b) ==
  IF a = b THEN st
  ELSE LET n1 == Min2(a, b)
           n2 == Max2(a, b)
       IN IF EdgeAt(st, n1, n2) # {}
          THEN [st EXCEPT !.edge_ages[FirstOf(EdgeAt(st, n1, n2))] = 0]
          ELSE IF st.n_edges < st.cfg.max_edges
               THEN [st EXCEPT !.edge_nodes[st.n_edges] = <<n1, n2>>,
                               !.edge_ages[st.n_edges] = 0,
                               !.n_edges = st.n_edges + 1]
               ELSE st

remove_edge(st, edge_idx) ==
  IF edge_idx < st.n_edges
  THEN [st EXCEPT
          !.edge_nodes = [i \in DOMAIN st.edge_nodes |->
                            IF i >= edge_idx /\ i < st.n_edges - 1
                            THEN st.edge_nodes[i + 1] ELSE st.edge_nodes[i]],
          !.edge_ages = [i \in DOMAIN st.edge_ages |->
                            IF i >= edge_idx /\ i < st.n_edges - 1
                            THEN st.edge_ages[i + 1] ELSE st.edge_ages[i]],
          !.n_edges = st.n_edges - 1]
  ELSE st

\* The neighbours of node_idx, in edge-list order.
RECURSIVE NeighborsFrom(_, _, _)
NeighborsFrom(st, node_idx, i) ==
  IF i >= st.n_edges THEN << >>
  ELSE IF st.edge_nodes[i][1] = node_idx
       THEN <<st.edge_nodes[i][2]>> \o NeighborsFrom(st, node_idx, i + 1)
       ELSE IF st.edge_nodes[i][2] = node_idx
            THEN <<st.edge_nodes[i][1]>> \o NeighborsFrom(st, node_idx, i + 1)
            ELSE NeighborsFrom(st, node_idx, i + 1)

get_neighbors(st, node_idx) == NeighborsFrom(st, node_idx, 0)

\* ------------------------------------------------------ nearest-unit search
RECURSIVE DistSqFrom(_, _, _, _)
DistSqFrom(st, node_idx, sample, d) ==
  IF d > FEATURE_DIM THEN 0
  ELSE LET diff == st.weights[node_idx][d] - float_to_fixed(sample[d])
           diff_sq == WideValue(MulShift(diff, diff))
       IN diff_sq + DistSqFrom(st, node_idx, sample, d + 1)

distance_squared(st, node_idx, sample) == DistSqFrom(st, node_idx, sample, 1)

\* distances = [distance_squared(i, sample) for i in range(n_nodes)], from
\* node i on.
RECURSIVE DistancesFrom(_, _, _)
DistancesFrom(st, sample, i) ==
  IF i >= st.n_nodes THEN << >>
  ELSE <<distance_squared(st, i, sample)>> \o DistancesFrom(st, sample, i + 1)

\* The first two entries of np.argsort(distances), as positions
\* 1..Len(distances). argsort is called with its default kind, quicksort,
\* which numpy documents as not stable: positions holding equal distances come
\* out in an order that depends on the numpy build and on the array length,
\* so every order that sorts the distances is an outcome.
ArgSort(distances) ==
  {p \in (1..Len(distances)) \X (1..Len(distances)) :
     /\ p[1] # p[2]
     /\ \A k \in 1..Len(distances) :
          /\ distances[p[1]] <= distances[k]
          /\ k # p[1] => distances[p[2]] <= distances[k]}

\* The pairs (s1, s2) that find_two_nearest(sample) can return.
find_two_nearest(st, sample) ==
  {<<p[1] - 1, p[2] - 1>> : p \in ArgSort(DistancesFrom(st, sample, 0))}

\* `overhead = 100  # Approximate overhead` of get_memory_usage.
OVERHEAD == 100

\* get_memory_usage: the dictionary it returns; total_kb is the float
\* (node_mem + edge_mem + overhead) / 1024.
get_memory_usage(st) ==
  LET node_mem == st.n_nodes * (FEATURE_DIM * 4 + 4)
      edge_mem == st.n_edges * 6
  IN [nodes_bytes |-> node_mem,
      edges_bytes |-> edge_mem,
      total_bytes |-> node_mem + edge_mem + OVERHEAD,
      total_kb |-> Float(node_mem + edge_mem + OVERHEAD, -10)]

\* [(int(edge_nodes[i, 0]), int(edge_nodes[i, 1])) for i in range(n_edges)]
get_edges_as_list(st) ==
  [k \in 1..st.n_edges |-> <<st.edge_nodes[k - 1][1], st.edge_nodes[k - 1][2]>>]

\* -------------------------------------------------------- adaptation step
update_weights(st, node_idx, sample, learning_rate) ==
  [st EXCEPT !.weights[node_idx] =
     [d \in Dims |->
        LET sample_fixed == float_to_fixed(sample[d])
            delta == sample_fixed - st.weights[node_idx][d]
        IN AddInt32(st.weights[node_idx][d], fixed_mul(learning_rate, delta))]]

\* for n in neighbors: update_weights(n, sample, eps_n)
RECURSIVE UpdateNeighbors(_, _, _)
UpdateNeighbors(st, neighbors, sample) ==
  IF neighbors = << >> THEN st
  ELSE UpdateNeighbors(update_weights(st, Head(neighbors), sample, EPS_N),
                       Tail(neighbors), sample)

\* Lines 307-320: error accumulation, winner and neighbour movement.
Adapt(st, sample, s1) ==
  LET dist_sq == distance_squared(st, s1, sample)
      st1 == [st EXCEPT !.errors[s1] = AddInt32(st.errors[s1], dist_sq)]
      st2 == update_weights(st1, s1, sample, EPS_W)
  IN UpdateNeighbors(st2, get_neighbors(st2, s1), sample)

\* Lines 325-328: increment the age of all edges emanating from s1.
AgeEdges(st, s1) ==
  [st EXCEPT !.edge_ages =
     [i \in DOMAIN st.edge_ages |->
        IF i < st.n_edges /\ (st.edge_nodes[i][1] = s1 \/ st.edge_nodes[i][2] = s1)
        THEN WrapUint16(st.edge_ages[i] + 1)
        ELSE st.edge_ages[i]]]

\* The pruning loop advancing i after a removal as well.
RECURSIVE PruneFrom_SkipAfterRemoval(_, _)
PruneFrom_SkipAfterRemoval(st, i) ==
  IF i >= st.n_edges THEN st
  ELSE IF st.edge_ages[i] > st.cfg.max_age
       THEN PruneFrom_SkipAfterRemoval(remove_edge(st, i), i + 1)
       ELSE PruneFrom_SkipAfterRemoval(st, i + 1)

\* Lines 330-336: the while loop removing edges with age > max_age.
RECURSIVE PruneFrom(_, _)
PruneFrom(st, i) ==
  IF i >= st.n_edges THEN st
  ELSE IF st.edge_ages[i] > st.cfg.max_age
       THEN PruneFrom(remove_edge(st, i), i)
       ELSE PruneFrom(st, i + 1)

PruneEdges(st) == PruneFrom(st, 0)

\* used[] marked from the first endpoint of each edge only.
Used_FirstEndpointOnly(st, n) ==
  \E i \in 0..st.n_edges - 1 : st.edge_nodes[i][1] = n

\* used[] of remove_isolated_nodes.
Used(st, n) ==
  \E i \in 0..st.n_edges - 1 : st.edge_nodes[i][1] = n \/ st.edge_nodes[i][2] = n

\* mapping[] numbering the kept nodes downwards from the last one.
Mapping_Descending(st, old_idx) ==
  IF old_idx < st.n_nodes /\ Used(st, old_idx)
  THEN Cardinality({j \in old_idx + 1..st.n_nodes - 1 : Used(st, j)})
  ELSE -1

\* mapping[] of remove_isolated_nodes: -1 unless old_idx < n_nodes is used.
Mapping(st, old_idx) ==
  IF old_idx < st.n_nodes /\ Used(st, old_idx)
  THEN Cardinality({j \in 0..old_idx - 1 : Used(st, j)})
  ELSE -1

\* The kept node that lands on new_idx.
OldOf(st, new_idx) ==
  CHOOSE old_idx \in 0..st.n_nodes - 1 : Mapping(st, old_idx) = new_idx

\* remove_isolated_nodes without `self.errors[new_idx] = self.errors[old_idx]`.
remove_isolated_nodes_WeightsOnly(st) ==
  LET kept == Cardinality({j \in 0..st.n_nodes - 1 : Used(st, j)})
  IN [st EXCEPT
        !.weights = [k \in DOMAIN st.weights |->
                       IF k < kept THEN st.weights[OldOf(st, k)] ELSE st.weights[k]],
        !.n_nodes = kept,
        !.edge_nodes = [i \in DOMAIN st.edge_nodes |->
                          IF i < st.n_edges
                          THEN <<WrapUint16(Mapping(st, st.edge_nodes[i][1])),
                                 WrapUint16(Mapping(st, st.edge_nodes[i][2]))>>
                          ELSE st.edge_nodes[i]]]

\* remove_isolated_nodes without the final "update edge indices" loop.
remove_isolated_nodes_NoRemap(st) ==
  LET kept == Cardinality({j \in 0..st.n_nodes - 1 : Used(st, j)})
  IN [st EXCEPT
        !.weights = [k \in DOMAIN st.weights |->
                       IF k < kept THEN st.weights[OldOf(st, k)] ELSE st.weights[k]],
        !.errors = [k \in DOMAIN st.errors |->
                       IF k < kept THEN st.errors[OldOf(st, k)] ELSE st.errors[k]],
        !.n_nodes = kept]

remove_isolated_nodes(st) ==
  LET kept == Cardinality({j \in 0..st.n_nodes - 1 : Used(st, j)})
  IN [st EXCEPT
        !.weights = [k \in DOMAIN st.weights |->
                       IF k < kept THEN st.weights[OldOf(st, k)] ELSE st.weights[k]],
        !.errors = [k \in DOMAIN st.errors |->
                       IF k < kept THEN st.errors[OldOf(st, k)] ELSE st.errors[k]],
        !.n_nodes = kept,
        !.edge_nodes = [i \in DOMAIN st.edge_nodes |->
                          IF i < st.n_edges
                          THEN <<WrapUint16(Mapping(st, st.edge_nodes[i][1])),
                                 WrapUint16(Mapping(st, st.edge_nodes[i][2]))>>
                          ELSE st.edge_nodes[i]]]

\* ------------------------------------------------------- growth controller
\* np.argmax(errors[:n_nodes]): the first index holding the maximum.
ArgMaxError(st) ==
  CHOOSE q \in 0..st.n_nodes - 1 :
    /\ \A j \in 0..st.n_nodes - 1 : st.errors[j] <= st.errors[q]
    /\ \A j \in 0..q - 1 : st.errors[j] < st.errors[q]

\* max(neighbors, key=errors): the first list element holding the maximum.
MaxErrorNeighbor(st, neighbors) ==
  LET k == CHOOSE k \in 1..Len(neighbors) :
             /\ \A j \in 1..Len(neighbors) :
                  st.errors[neighbors[j]] <= st.errors[neighbors[k]]
             /\ \A j \in 1..k - 1 :
                  st.errors[neighbors[j]] < st.errors[neighbors[k]]
  IN neighbors[k]

\* Lines 403-408: remove the first stored edge joining q and f.
RemoveEdgeBetween(st, q, f) ==
  LET hits == {i \in 0..st.n_edges - 1 :
                 \/ (st.edge_nodes[i][1] = q /\ st.edge_nodes[i][2] = f)
                 \/ (st.edge_nodes[i][1] = f /\ st.edge_nodes[i][2] = q)}
  IN IF hits = {} THEN st ELSE remove_edge(st, FirstOf(hits))

\* Lines 395-424 with errors[new_idx] = errors[q] placed before the two
\* multiplications by alpha.
InsertBetween_CopyBeforeDecay(st, q, f) ==
  LET new_idx == st.n_nodes
      st1 == [st EXCEPT !.weights[new_idx] =
                [d \in Dims |->
                   AddInt32(st.weights[q][d], st.weights[f][d]) \div 2]]
      st2 == RemoveEdgeBetween(st1, q, f)
      st3 == add_edge(st2, q, new_idx)
      st4 == add_edge(st3, f, new_idx)
      st5 == [st4 EXCEPT !.errors[new_idx] = st4.errors[q]]
      st6 == [st5 EXCEPT !.errors[q] = fixed_mul(st5.errors[q], ALPHA_FIXED)]
      st7 == [st6 EXCEPT !.errors[f] = fixed_mul(st6.errors[f], ALPHA_FIXED)]
  IN [st7 EXCEPT !.n_nodes = st7.n_nodes + 1]

\* Lines 395-424, once q and f are known.
InsertBetween(st, q, f) ==
  LET new_idx == st.n_nodes
      st1 == [st EXCEPT !.weights[new_idx] =
                [d \in Dims |->
                   AddInt32(st.weights[q][d], st.weights[f][d]) \div 2]]
      st2 == RemoveEdgeBetween(st1, q, f)
      st3 == add_edge(st2, q, new_idx)
      st4 == add_edge(st3, f, new_idx)
      st5 == [st4 EXCEPT !.errors[q] = fixed_mul(st4.errors[q], ALPHA_FIXED)]
      st6 == [st5 EXCEPT !.errors[f] = fixed_mul(st5.errors[f], ALPHA_FIXED)]
      st7 == [st6 EXCEPT !.errors[new_idx] = st6.errors[q]]
  IN [st7 EXCEPT !.n_nodes = st7.n_nodes + 1]

\* The result of a method: the engine after it and the exception it raised.
Done(st) == [st |-> st, raised |-> "none"]
Raise(st, exc) == [st |-> st, raised |-> exc]

\* insert_node without the `if self.n_nodes >= self.cfg.max_nodes` return.
insert_node_NoCapGuard(st) ==
  IF st.n_nodes = 0 THEN Raise(st, "ValueError")
  ELSE LET q == ArgMaxError(st)
           neighbors == get_neighbors(st, q)
       IN IF neighbors = << >> THEN Done(st)
          ELSE LET f == MaxErrorNeighbor(st, neighbors)
                   st2 == RemoveEdgeBetween(st, q, f)
                   st4 == add_edge(add_edge(st2, q, st.n_nodes), f, st.n_nodes)
               IN Done([st4 EXCEPT !.n_nodes = st.n_nodes + 1])

insert_node(st) ==
  IF st.n_nodes >= st.cfg.max_nodes THEN Done(st)
  ELSE IF st.n_nodes = 0 THEN Raise(st, "ValueError")
  ELSE LET q == ArgMaxError(st)
           neighbors == get_neighbors(st, q)
       IN IF neighbors = << >> THEN Done(st)
          ELSE Done(InsertBetween(st, q, MaxErrorNeighbor(st, neighbors)))

\* Lines 346-349: errors[i] = fixed_mul(errors[i], beta_fixed), i < n_nodes.
DecayErrors(st) ==
  [st EXCEPT !.errors =
     [i \in DOMAIN st.errors |->
        IF i < st.n_nodes THEN fixed_mul(st.errors[i], BETA_FIXED) ELSE st.errors[i]]]

\* Lines 307-339 with add_edge(s1, s2) called before the neighbours of s1 are
\* collected and moved.
BeforeCompaction_EdgeBeforeNeighbors(st, sample, s) ==
  LET dist_sq == distance_squared(st, s[1], sample)
      st1 == [st EXCEPT !.errors[s[1]] = AddInt32(st.errors[s[1]], dist_sq)]
      st2 == add_edge(update_weights(st1, s[1], sample, EPS_W), s[1], s[2])
      st3 == UpdateNeighbors(st2, get_neighbors(st2, s[1]), sample)
  IN PruneEdges(AgeEdges(st3, s[1]))

\* Lines 322-339: the state when remove_isolated_nodes is about to run.
\* s is the pair (s1, s2) that find_two_nearest returned.
BeforeCompaction(st, sample, s) ==
  PruneEdges(AgeEdges(add_edge(Adapt(st, sample, s[1]), s[1], s[2]), s[1]))

\* Lines 341-351 with the test of iteration % lambda_ made before the
\* increment.
Grow_TestBeforeIncrement(st) ==
  LET st1 == [st EXCEPT !.iteration = st.iteration + 1]
  IN IF st.cfg.lambda_ = 0 THEN Raise(st1, "ZeroDivisionError")
     ELSE IF st.iteration % st.cfg.lambda_ = 0 /\ st1.n_nodes < st.cfg.max_nodes
          THEN LET r == insert_node(st1)
               IN IF r.raised # "none" THEN r ELSE Done(DecayErrors(r.st))
          ELSE Done(DecayErrors(st1))

\* Lines 341-351: the iteration counter, the periodic insertion, the decay.
Grow(st) ==
  LET st1 == [st EXCEPT !.iteration = st.iteration + 1]
  IN IF st.cfg.lambda_ = 0 THEN Raise(st1, "ZeroDivisionError")
     ELSE IF st1.iteration % st.cfg.lambda_ = 0 /\ st1.n_nodes < st.cfg.max_nodes
          THEN LET r == insert_node(st1)
               IN IF r.raised # "none" THEN r ELSE Done(DecayErrors(r.st))
          ELSE Done(DecayErrors(st1))

\* train_step(sample) in which find_two_nearest returned s.
train_step(st, sample, s) ==
  IF st.n_nodes < 2 THEN Done(st)
  ELSE Grow(remove_isolated_nodes(BeforeCompaction(st, sample, s)))

\* What find_two_nearest can hand to train_step(sample): nothing when the
\* step returns before the search.
Nearest(st, sample) ==
  IF st.n_nodes < 2 THEN {<< >>} ELSE find_two_nearest(st, sample)

\* Lines 192-211, idx = (i0, i1) the two distinct indices np.random.choice drew.
initialize(st, data, i0, i1) ==
  LET st1 == [st EXCEPT !.weights[0] = [d \in Dims |-> float_to_fixed(data[i0][d])],
                        !.weights[1] = [d \in Dims |-> float_to_fixed(data[i1][d])],
                        !.n_nodes = 2]
  IN add_edge(st1, 0, 1)

\* for epoch in range(epochs): for idx in permutation(len(data)):
\* train_step(data[idx]), for a one-sample data set, from the engine st: the
\* set of its outcomes. `pre` and `nearest` are the engine when the latest
\* train_step started and the pair its search returned; an exception ends the
\* loop. The `epochs` iterations are run as two halves, one after the other.
RECURSIVE TrainLoop(_, _, _)
TrainLoop(st, sample, epochs) ==
  IF epochs = 1
  THEN {[st |-> train_step(st, sample, s).st,
         raised |-> train_step(st, sample, s).raised,
         pre |-> st, nearest |-> s] : s \in Nearest(st, sample)}
  ELSE UNION {IF half.raised # "none" THEN {half}
              ELSE TrainLoop(half.st, sample, epochs - epochs \div 2) :
                half \in TrainLoop(st, sample, epochs \div 2)}

\* train(data, epochs) with data = [sample]: on an empty network it calls
\* initialize(data), which raises "Need at least 2 samples".
train(st, sample, epochs) ==
  IF st.n_nodes = 0
  THEN {[st |-> st, raised |-> "ValueError", pre |-> st, nearest |-> << >>]}
  ELSE IF epochs = 0
       THEN {[st |-> st, raised |-> "none", pre |-> st, nearest |-> << >>]}
       ELSE TrainLoop(st, sample, epochs)

\* ----------------------------------------------------------------- actions
Become(st) ==
  /\ cfg' = st.cfg
  /\ n_nodes' = st.n_nodes
  /\ n_edges' = st.n_edges
  /\ iteration' = st.iteration
  /\ weights' = st.weights
  /\ errors' = st.errors
  /\ edge_nodes' = st.edge_nodes
  /\ edge_ages' = st.edge_ages

InitWith(configs) ==
  /\ cfg \in configs
  /\ n_nodes = 0
  /\ n_edges = 0
  /\ iteration = 0
  /\ weights = Construct(cfg).weights
  /\ errors = Construct(cfg).errors
  /\ edge_nodes = Construct(cfg).edge_nodes
  /\ edge_ages = Construct(cfg).edge_ages
  /\ n_init = 0
  /\ pre = Construct(cfg)
  /\ call = [op |-> "__init__", sample |-> << >>]
  /\ ret = [raised |-> "none", value |-> "None"]

Init == InitWith(Configs)

\* train(): `if self.n_nodes == 0: self.initialize(data)`; idx, the two
\* distinct positions np.random.choice draws, is any member of `draws`.
InitializeFrom(data, draws) ==
  /\ n_nodes = 0
  /\ n_init < MaxInit
  /\ n_init' = n_init + 1
  /\ \E idx \in draws :
       /\ Become(initialize(Self, data, idx[1], idx[2]))
       /\ pre' = Self
       /\ call' = [op |-> "initialize", sample |-> <<data[idx[1]], data[idx[2]]>>]
       /\ ret' = [raised |-> "none", value |-> "None"]

\* One call of train_step(sample), by train() or by the caller directly; at
\* most `steps` calls get past the n_nodes < 2 return.
TrainStepOn(samples, steps) ==
  /\ n_nodes < 2 \/ iteration < steps
  /\ \E sample \in samples : \E s \in Nearest(Self, sample) :
       LET r == train_step(Self, sample, s)
       IN /\ Become(r.st)
          /\ UNCHANGED n_init
          /\ pre' = Self
          /\ call' = [op |-> "train_step", sample |-> sample, nearest |-> s]
          /\ ret' = [raised |-> r.raised, value |-> "None"]

AllDraws(data) ==
  {idx \in (1..Len(data)) \X (1..Len(data)) : idx[1] # idx[2]}

Initialize == InitializeFrom(Data, AllDraws(Data))

TrainStep == TrainStepOn(Samples, MaxIter)

Next == Initialize \/ TrainStep

Spec == Init /\ [][Next]_vars

\* ------------------------------------------------------------ a long run
\* One engine whose max_age is the largest 16-bit value, initialized on (0,0)
\* and (1,0) and then trained on the one sample (0.5 + 2^-16, 1): one call of
\* train([sample], epochs=1), then repeated calls of
\* train([sample], epochs=AgingEpochs). No two nodes are ever at the same
\* distance from the sample in this run.
AgingConfig == [max_nodes |-> 3, max_edges |-> 2, max_age |-> 65535, lambda_ |-> 1]

AgingData == << <<Float(0, 0), Float(0, 0)>>, <<Float(1, 0), Float(0, 0)>> >>

AgingSample == <<Float(32769, -16), Float(1, 0)>>

InitAging == InitWith({AgingConfig})

InitializeAging == InitializeFrom(AgingData, {<<1, 2>>})

\* One call of train([AgingSample], epochs); pre and call are those of the
\* last train_step it made.
TrainAging ==
  /\ iteration < MaxAgingSteps
  /\ \E r \in train(Self, AgingSample, IF iteration = 0 THEN 1 ELSE AgingEpochs) :
       /\ Become(r.st)
       /\ UNCHANGED n_init
       /\ pre' = r.pre
       /\ call' = IF n_nodes = 0
                  THEN [op |-> "train", sample |-> AgingSample, nearest |-> << >>]
                  ELSE [op |-> "train_step", sample |-> AgingSample,
                        nearest |-> r.nearest]
       /\ ret' = [raised |-> r.raised, value |-> "None"]

NextAging == InitializeAging \/ TrainAging

SpecAging == InitAging /\ [][NextAging]_vars

\* ------------------------------------------------------ far-apart samples
\* The engines of Spec on a data set whose points are 150 to 180 units apart:
\* (90, 120) is at distance 150 from both (0, 0) and (180, 0), and the squared
\* distance 180^2 is just below 2^15, the largest a Q16.16 value can hold.
FarData ==
  << <<Float(0, 0), Float(0, 0)>>,
     <<Float(180, 0), Float(0, 0)>>,
     <<Float(90, 0), Float(120, 0)>> >>

FarSamples == {FarData[i] : i \in 1..Len(FarData)}

InitializeFar == InitializeFrom(FarData, AllDraws(FarData))

TrainStepFar == TrainStepOn(FarSamples, MaxIter)

NextFar == InitializeFar \/ TrainStepFar

SpecFar == Init /\ [][NextFar]_vars

\* ------------------------------------------------------ a four-node network
\* Engines with room for four nodes and max_age = 1, initialized on (0,0) and
\* (4,0) and trained on three samples: (1.5, 0) near node 0, (2, 100) far
\* above the midpoint, and (2.5, 1.5). The samples in this order, the last one
\* twice, give node 3 two edges stored next to each other that go over age in
\* the same step.
WideConfigs ==
  [max_nodes : {4}, max_edges : 3..4, max_age : {1}, lambda_ : 1..2]

WideData == << <<Float(0, 0), Float(0, 0)>>, <<Float(4, 0), Float(0, 0)>> >>

WideSamples ==
  {<<Float(3, -1), Float(0, 0)>>,
   <<Float(2, 0), Float(100, 0)>>,
   <<Float(5, -1), Float(3, -1)>>}

InitWide == InitWith(WideConfigs)

InitializeWide == InitializeFrom(WideData, {<<1, 2>>})

TrainStepWide == TrainStepOn(WideSamples, MaxWideSteps)

NextWide == InitializeWide \/ TrainStepWide

SpecWide == InitWide /\ [][NextWide]_vars

\* ------------------------------------------------------ the pruning wrapper
\* PrunedGNG of gng_ultra_optimized.py around an engine (self.gng).
\* remove_mask is the boolean array of _remove_nodes, indexed by node.
KeepIndices(remove_mask) == {n \in DOMAIN remove_mask : ~remove_mask[n]}

\* mapping[] of _remove_nodes: the position of old_idx in keep_indices, or -1.
NewIndex(remove_mask, old_idx) ==
  IF old_idx \in KeepIndices(remove_mask)
  THEN Cardinality({n \in KeepIndices(remove_mask) : n < old_idx})
  ELSE -1

\* keep_indices[new_idx]
KeptAt(remove_mask, new_idx) ==
  CHOOSE n \in KeepIndices(remove_mask) : NewIndex(remove_mask, n) = new_idx

\* The "update edges" loop of _remove_nodes from edge i on, new_edge_idx
\* edges kept so far.
RECURSIVE UpdateEdges(_, _, _, _)
UpdateEdges(st, remove_mask, i, new_edge_idx) ==
  IF i >= st.n_edges THEN [st EXCEPT !.n_edges = new_edge_idx]
  ELSE LET new_n1 == NewIndex(remove_mask, st.edge_nodes[i][1])
           new_n2 == NewIndex(remove_mask, st.edge_nodes[i][2])
       IN IF new_n1 >= 0 /\ new_n2 >= 0
          THEN UpdateEdges([st EXCEPT !.edge_nodes[new_edge_idx] = <<new_n1, new_n2>>,
                                      !.edge_ages[new_edge_idx] = st.edge_ages[i]],
                           remove_mask, i + 1, new_edge_idx + 1)
          ELSE UpdateEdges(st, remove_mask, i + 1, new_edge_idx)

\* PrunedGNG._remove_nodes(remove_mask) on the engine st.
_remove_nodes(st, remove_mask) ==
  LET kept == Cardinality(KeepIndices(remove_mask))
      st1 == [st EXCEPT
                !.weights = [k \in DOMAIN st.weights |->
                               IF k < kept THEN st.weights[KeptAt(remove_mask, k)]
                               ELSE st.weights[k]],
                !.n_nodes = kept]
  IN UpdateEdges(st1, remove_mask, 0, 0)

\* The sample loop of one epoch of train_with_pruning from data[k] on:
\* node_usage_count[bmu1] += 1, then train_step(sample). The set of outcomes.
RECURSIVE EpochFrom(_, _, _, _)
EpochFrom(st, node_usage_count, data, k) ==
  IF k > Len(data) \/ st.n_nodes < 2
  THEN {[st |-> st, node_usage_count |-> node_usage_count, raised |-> "none"]}
  ELSE UNION {LET r == train_step(st, data[k], s)
                  counted == [node_usage_count EXCEPT ![s[1]] = @ + 1]
              IN IF r.raised # "none"
                 THEN {[st |-> r.st, node_usage_count |-> counted, raised |-> r.raised]}
                 ELSE EpochFrom(r.st, counted, data, k + 1) :
                s \in find_two_nearest(st, data[k])}

\* 1 / prune_threshold for the default prune_threshold = 0.001.
PRUNE_THRESHOLD_INVERSE == 1000

\* No pruning below or at this node count, and none that leaves fewer.
MIN_NODES_KEPT == 4

\* The remove masks `~nodes_to_keep` that the end of an epoch can compute for
\* an engine of more than 4 nodes: the nodes with usage_rate <= threshold, or,
\* when fewer than 4 nodes are above it, all but the last 4 of
\* np.argsort(node_usage_count[:n_nodes]), an unstable sort in which equal
\* counts come out in any order.
RemoveMasks(st, node_usage_count, data) ==
  LET nodes == 0..st.n_nodes - 1
      above == {n \in nodes :
                  node_usage_count[n] * PRUNE_THRESHOLD_INVERSE > Len(data)}
      tops == {T \in SUBSET nodes :
                 /\ Cardinality(T) = MIN_NODES_KEPT
                 /\ \A a \in T : \A b \in nodes \ T :
                      node_usage_count[a] >= node_usage_count[b]}
      keeps == IF Cardinality(above) < MIN_NODES_KEPT THEN tops ELSE {above}
  IN {[n \in nodes |-> n \notin keep] : keep \in keeps}

\* The end of an epoch that left engine st: the outcomes of the pruning.
\* `pre` is the engine handed to _remove_nodes, when it was called.
PruneAfterEpoch(st, node_usage_count, data) ==
  IF st.n_nodes <= MIN_NODES_KEPT
  THEN {[st |-> st, raised |-> "none", pruned |-> FALSE, pre |-> st,
         remove_mask |-> << >>]}
  ELSE {IF Cardinality({n \in DOMAIN remove_mask : remove_mask[n]}) > 0
           /\ Cardinality(KeepIndices(remove_mask)) >= MIN_NODES_KEPT
        THEN [st |-> _remove_nodes(st, remove_mask), raised |-> "none",
              pruned |-> TRUE, pre |-> st, remove_mask |-> remove_mask]
        ELSE [st |-> st, raised |-> "none", pruned |-> FALSE, pre |-> st,
              remove_mask |-> << >>] :
          remove_mask \in RemoveMasks(st, node_usage_count, data)}

\* train_with_pruning(data, epochs=1) on engine st: the set of its outcomes.
train_with_pruning(st, data) ==
  IF st.n_nodes < 2
  THEN {[st |-> st, raised |-> "none", pruned |-> FALSE, pre |-> st,
         remove_mask |-> << >>]}
  ELSE UNION {IF e.raised # "none"
              THEN {[st |-> e.st, raised |-> e.raised, pruned |-> FALSE,
                     pre |-> st, remove_mask |-> << >>]}
              ELSE PruneAfterEpoch(e.st, e.node_usage_count, data) :
                e \in EpochFrom(st, [n \in 0..st.cfg.max_nodes - 1 |-> 0], data, 1)}

\* Engines with room for five or six nodes that insert a node in every step,
\* initialized on (0,0) and (4,0); the data set of train_with_pruning is
\* (1.5, 0), (2, 100), (2.5, 1.5), in this order.
PrunedConfigs ==
  [max_nodes : 5..6, max_edges : 6..7, max_age : {1, 50}, lambda_ : {1}]

PrunedData ==
  << <<Float(3, -1), Float(0, 0)>>,
     <<Float(2, 0), Float(100, 0)>>,
     <<Float(5, -1), Float(3, -1)>> >>

InitPruned == InitWith(PrunedConfigs)

InitializePruned == InitializeFrom(WideData, {<<1, 2>>, <<2, 1>>})

TrainStepPruned == TrainStepOn(WideSamples, MaxPruneSteps)

\* One call of train_with_pruning(PrunedData); when it pruned, pre and call
\* are those of its _remove_nodes call.
TrainWithPruning ==
  /\ n_nodes >= 2
  /\ iteration <= MaxPruneSteps
  /\ \E r \in train_with_pruning(Self, PrunedData) :
       /\ Become(r.st)
       /\ UNCHANGED n_init
       /\ pre' = r.pre
       /\ call' = IF r.pruned
                  THEN [op |-> "_remove_nodes", remove_mask |-> r.remove_mask]
                  ELSE [op |-> "train_with_pruning", data |-> PrunedData]
       /\ ret' = [raised |-> r.raised, value |-> "None"]

NextPruned == InitializePruned \/ TrainStepPruned \/ TrainWithPruning

SpecPruned == InitPruned /\ [][NextPruned]_vars

\* ------------------------------------------------- the arithmetic functions
\* Calls of the module-level functions fixed_mul, fixed_div, float_to_fixed,
\* fixed_to_float and fixed_sqrt, on arguments around the limits of the
\* Q16.16 range, around 1.0 and around 0.
Int32Inputs ==
  {FIXED_POINT_MIN + k : k \in 0..MaxOffset}
    \cup {FIXED_POINT_MAX - k : k \in 0..MaxOffset}
    \cup {pivot + k : pivot \in {-FIXED_POINT_SCALE, 0, FIXED_POINT_SCALE, 46341},
                      k \in -MaxOffset..MaxOffset}

\* A 64-bit float other than inf and nan: below 2^1024.
IsFinite(x) == BitLength(x.m) + x.e <= FLOAT_MAX_EXP

FloatInputs ==
  {x \in {Float(m, pivot + k) :
            m \in {-FIXED_POINT_MAX, -131073, -3, -1, 0, 1, 3, 131073, FIXED_POINT_MAX},
            pivot \in {-48, -32, -FIXED_POINT_BITS, 0, 15, 992},
            k \in -MaxOffset..MaxOffset} : IsFinite(x)}

ArithCalls ==
  {[op |-> "fixed_mul", args |-> <<a, b>>, returned |-> FALSE] :
     a \in Int32Inputs, b \in Int32Inputs}
    \cup {[op |-> "fixed_div", args |-> <<a, b>>, returned |-> FALSE] :
            a \in Int32Inputs, b \in Int32Inputs}
    \cup {[op |-> "float_to_fixed", args |-> <<x>>, returned |-> FALSE] :
            x \in FloatInputs}
    \cup {[op |-> "fixed_sqrt", args |-> <<x>>, returned |-> FALSE] :
            x \in Int32Inputs}

\* The functions are called beside an engine that no call touches.
ArithConfig ==
  [max_nodes |-> MaxNodesCap, max_edges |-> MaxEdgesCap,
   max_age |-> MaxAgeCap, lambda_ |-> MaxLambdaCap]

InitArith ==
  /\ cfg = ArithConfig
  /\ n_nodes = 0
  /\ n_edges = 0
  /\ iteration = 0
  /\ weights = Construct(cfg).weights
  /\ errors = Construct(cfg).errors
  /\ edge_nodes = Construct(cfg).edge_nodes
  /\ edge_ages = Construct(cfg).edge_ages
  /\ n_init = 0
  /\ pre = Construct(cfg)
  /\ call \in ArithCalls
  /\ ret = [raised |-> "none", value |-> "None"]

\* The call `call` returns or raises `result`.
Return(result) ==
  /\ ~call.returned
  /\ call' = [call EXCEPT !.returned = TRUE]
  /\ ret' = result
  /\ UNCHANGED <<cfg, n_nodes, n_edges, iteration, weights, errors, edge_nodes,
                 edge_ages, n_init, pre>>

CallFixedMul ==
  /\ call.op = "fixed_mul"
  /\ Return([raised |-> "none", value |-> fixed_mul(call.args[1], call.args[2])])

CallFixedDiv ==
  /\ call.op = "fixed_div"
  /\ Return([raised |-> "none", value |-> fixed_div(call.args[1], call.args[2])])

CallFloatToFixed ==
  /\ call.op = "float_to_fixed"
  /\ Return(float_to_fixed_call(call.args[1]))

CallFixedSqrt ==
  /\ call.op = "fixed_sqrt"
  /\ Return([raised |-> "none", value |-> fixed_sqrt(call.args[1]),
             new_guesses |-> SqrtRun(call.args[1]).new_guesses])

\* fixed_to_float of the value that float_to_fixed(x) returned.
CallFixedToFloat ==
  /\ call.op = "float_to_fixed"
  /\ call.returned
  /\ ret.raised = "none"
  /\ call' = [op |-> "fixed_to_float", args |-> <<ret.value>>, returned |-> TRUE,
              of |-> call.args[1]]
  /\ ret' = [raised |-> "none", value |-> fixed_to_float(ret.value)]
  /\ UNCHANGED <<cfg, n_nodes, n_edges, iteration, weights, errors, edge_nodes,
                 edge_ages, n_init, pre>>

NextArith ==
  CallFixedMul \/ CallFixedDiv \/ CallFloatToFixed \/ CallFixedSqrt
    \/ CallFixedToFloat

SpecArith == InitArith /\ [][NextArith]_vars

\* ------------------------------------------------------------------ claims
\* What the last call was, for the properties below.
StepRan == call.op = "train_step" /\ pre.n_nodes >= 2

\* The last step's best and second-best match (s1, s2).
Winner == call.nearest

\* The engine of the last step when its remove_isolated_nodes started.
PreCompaction == BeforeCompaction(pre, call.sample, Winner)

\* The engine of the last step when it tested iteration % lambda_.
AtGrowth ==
  [remove_isolated_nodes(PreCompaction) EXCEPT !.iteration = pre.iteration + 1]

\* Node n is an endpoint of a stored edge of the current engine.
HasEdge(n) ==
  \E i \in 0..n_edges - 1 : edge_nodes[i][1] = n \/ edge_nodes[i][2] = n

\* Nodes a and b are joined by a stored edge of engine st.
Joined(st, a, b) ==
  \E i \in 0..st.n_edges - 1 :
    {st.edge_nodes[i][1], st.edge_nodes[i][2]} = {a, b}

\* C1: after every completed train_step every node below n_nodes is an
\* endpoint of at least one stored edge.
C1_NoIsolatedNodeAfterStep ==
  (StepRan /\ ret.raised = "none") => \A n \in 0..n_nodes - 1 : HasEdge(n)

\* C2: every stored edge has both endpoints below n_nodes, joins two different
\* nodes, and no two stored edges join the same unordered pair.
C2_EdgesWellFormed ==
  \A i \in 0..n_edges - 1 :
    /\ edge_nodes[i][1] \in 0..n_nodes - 1
    /\ edge_nodes[i][2] \in 0..n_nodes - 1
    /\ edge_nodes[i][1] # edge_nodes[i][2]
    /\ \A j \in 0..n_edges - 1 :
         j # i => {edge_nodes[j][1], edge_nodes[j][2]}
                    # {edge_nodes[i][1], edge_nodes[i][2]}

\* A step whose compaction removed a node and renumbered a node that keeps
\* an edge.
C2_Witness ==
  /\ StepRan
  /\ n_edges >= 1
  /\ n_nodes < PreCompaction.n_nodes
  /\ \E n \in 0..PreCompaction.n_nodes - 1 :
       Mapping(PreCompaction, n) \notin {-1, n}

\* C3: 0 <= n_nodes <= max_nodes and 0 <= n_edges <= max_edges.
C3_CountsWithinCapacity ==
  /\ 0 <= n_nodes /\ n_nodes <= cfg.max_nodes
  /\ 0 <= n_edges /\ n_edges <= cfg.max_edges

\* A step on a full node table and a full edge list whose (s1, s2) pair is
\* not stored, in an insertion cycle.
C3_Witness ==
  /\ StepRan
  /\ pre.n_nodes = cfg.max_nodes /\ pre.n_edges = cfg.max_edges
  /\ ~Joined(pre, Winner[1], Winner[2])
  /\ n_nodes = cfg.max_nodes /\ n_edges = cfg.max_edges
  /\ cfg.lambda_ > 0 /\ iteration % cfg.lambda_ = 0

\* C4: from an initialized network with max_age >= 1, n_nodes stays between 2
\* and max_nodes after every train_step.
C4_NeverBelowTwoNodes ==
  (n_init >= 1 /\ cfg.max_age >= 1 /\ ret.raised = "none")
    => (2 <= n_nodes /\ n_nodes <= cfg.max_nodes)

\* C4 restricted to the configurations with room for an edge.
NeverBelowTwoNodesWithEdgeRoom ==
  (n_init >= 1 /\ cfg.max_age >= 1 /\ cfg.max_edges >= 1)
    => (2 <= n_nodes /\ n_nodes <= cfg.max_nodes)

\* What a train_step that ran to its end hands back.
CompletedStepResult == [raised |-> "none", value |-> "None"]

\* C5: train_step on fewer than 2 nodes leaves the engine unchanged and
\* hands back a result distinct from that of a completed step.
C5_InsufficientNetworkSignalled ==
  (call.op = "train_step" /\ pre.n_nodes < 2)
    => (Self = pre /\ ret # CompletedStepResult)

\* C5 without the signalling: the engine is left unchanged.
InsufficientNetworkLeavesEngine ==
  (call.op = "train_step" /\ pre.n_nodes < 2) => Self = pre

\* C6: insert_node adds no node at n_nodes = max_nodes, and adds exactly one
\* when n_nodes < max_nodes and the maximum-error node has a neighbour: for
\* insert_node called on the current engine, and for the insertion cycle of
\* the last step.
C6_InsertionGating ==
  /\ n_nodes = cfg.max_nodes => insert_node(Self).st.n_nodes = n_nodes
  /\ (0 < n_nodes /\ n_nodes < cfg.max_nodes
        /\ get_neighbors(Self, ArgMaxError(Self)) # << >>)
       => insert_node(Self).st.n_nodes = n_nodes + 1
  /\ StepRan =>
       /\ n_nodes \in {AtGrowth.n_nodes, AtGrowth.n_nodes + 1}
       /\ AtGrowth.n_nodes = cfg.max_nodes => n_nodes = AtGrowth.n_nodes
       /\ (cfg.lambda_ > 0 /\ iteration % cfg.lambda_ = 0
             /\ 0 < AtGrowth.n_nodes /\ AtGrowth.n_nodes < cfg.max_nodes
             /\ get_neighbors(AtGrowth, ArgMaxError(AtGrowth)) # << >>)
            => n_nodes = AtGrowth.n_nodes + 1

\* A step that inserted a node and thereby filled the node table.
C6_Witness ==
  /\ StepRan
  /\ AtGrowth.n_nodes < cfg.max_nodes
  /\ n_nodes = AtGrowth.n_nodes + 1
  /\ n_nodes = cfg.max_nodes

\* Where the edge stored at index i of `pre` is stored when the last step has
\* ended: its endpoints renumbered by the step's compaction.
SurvivorsOf(i) ==
  LET a == Mapping(PreCompaction, pre.edge_nodes[i][1])
      b == Mapping(PreCompaction, pre.edge_nodes[i][2])
  IN {j \in 0..n_edges - 1 : a # -1 /\ b # -1 /\ edge_nodes[j] = <<a, b>>}

TouchesWinner(i) == Winner[1] \in {pre.edge_nodes[i][1], pre.edge_nodes[i][2]}

IsWinnerPair(i) ==
  {pre.edge_nodes[i][1], pre.edge_nodes[i][2]} = {Winner[1], Winner[2]}

\* C7: in a step with winner s1 every surviving edge with s1 as an endpoint,
\* other than the (s1, s2) pair, has its age increased by exactly 1, every
\* surviving edge not incident to s1 keeps its age, and only the (s1, s2)
\* pair can end the step younger than it started.
C7_MonotonicAging ==
  StepRan =>
    \A i \in 0..pre.n_edges - 1 : \A j \in SurvivorsOf(i) :
      /\ (TouchesWinner(i) /\ ~IsWinnerPair(i)) => edge_ages[j] = pre.edge_ages[i] + 1
      /\ ~TouchesWinner(i) => edge_ages[j] = pre.edge_ages[i]
      /\ edge_ages[j] < pre.edge_ages[i] => IsWinnerPair(i)

\* C7 with the age counted in its 16 bits.
MonotonicAgingModulo ==
  StepRan =>
    \A i \in 0..pre.n_edges - 1 : \A j \in SurvivorsOf(i) :
      /\ (TouchesWinner(i) /\ ~IsWinnerPair(i))
           => edge_ages[j] = (pre.edge_ages[i] + 1) % 65536
      /\ ~TouchesWinner(i) => edge_ages[j] = pre.edge_ages[i]

\* C8: the edge between s1 and s2 that a step creates or refreshes has age 0
\* when the step ends.
C8_RefreshedEdgeAgeZero ==
  (StepRan /\ ret.raised = "none") =>
    LET a == Mapping(PreCompaction, Min2(Winner[1], Winner[2]))
        b == Mapping(PreCompaction, Max2(Winner[1], Winner[2]))
    IN \A j \in 0..n_edges - 1 :
         (a # -1 /\ b # -1 /\ edge_nodes[j] = <<a, b>>) => edge_ages[j] = 0

\* The pair {a, b} is stored in engine st.
Stored(st, a, b) == EdgeAt(st, Min2(a, b), Max2(a, b)) # {}

\* The engine of the last step when it called add_edge(s1, s2).
AtRefresh == Adapt(pre, call.sample, Winner[1])

\* C9: with n_edges = max_edges, add_edge of a pair that is not stored changes
\* nothing: for add_edge called on the current engine with any two nodes, and
\* for the add_edge(s1, s2) of the last step.
C9_AddEdgeAtCapacityIsNoOp ==
  /\ \A a \in 0..cfg.max_nodes - 1, b \in 0..cfg.max_nodes - 1 :
       (n_edges = cfg.max_edges /\ ~Stored(Self, a, b)) => add_edge(Self, a, b) = Self
  /\ (StepRan /\ AtRefresh.n_edges = cfg.max_edges
        /\ ~Stored(AtRefresh, Winner[1], Winner[2]))
       => add_edge(AtRefresh, Winner[1], Winner[2]) = AtRefresh

\* A step whose add_edge(s1, s2) met a full edge list not holding the pair,
\* and which left the list full.
C9_Witness ==
  /\ StepRan
  /\ cfg.max_edges >= 1
  /\ AtRefresh.n_edges = cfg.max_edges
  /\ ~Stored(AtRefresh, Winner[1], Winner[2])
  /\ n_edges = cfg.max_edges
  /\ \E a \in 0..n_nodes - 1, b \in 0..n_nodes - 1 : a # b /\ ~Stored(Self, a, b)

\* C10: add_edge(a, b) and add_edge(b, a) yield the same engine, a second call
\* changes nothing more, and on a stored pair n_edges and the endpoints stay
\* and exactly that edge's age becomes 0.
C10_AddEdgeIdempotent ==
  \A a \in 0..cfg.max_nodes - 1, b \in 0..cfg.max_nodes - 1 :
    LET once == add_edge(Self, a, b)
    IN /\ add_edge(once, a, b) = once
       /\ add_edge(Self, b, a) = once
       /\ Stored(Self, a, b) =>
            /\ once.n_edges = n_edges
            /\ once.edge_nodes = edge_nodes
            /\ \A i \in 0..n_edges - 1 :
                 once.edge_ages[i] =
                   IF {edge_nodes[i][1], edge_nodes[i][2]} = {a, b}
                   THEN 0 ELSE edge_ages[i]
            /\ once = [Self EXCEPT !.edge_ages = once.edge_ages]

\* A full edge list holding an aged edge, left by a step whose add_edge(s1, s2)
\* refreshed a stored pair given with s1 > s2.
C10_Witness ==
  /\ StepRan
  /\ Winner[1] > Winner[2]
  /\ Stored(AtRefresh, Winner[1], Winner[2])
  /\ n_edges = cfg.max_edges
  /\ \E i \in 0..n_edges - 1 : edge_ages[i] > 0

\* The constraints a configuration must satisfy: max_nodes >= 2, max_edges >= 1,
\* feature_dim >= 1, the four rates in (0, 1], max_age >= 0, lambda_ >= 1.
ValidConfig(c) ==
  /\ c.max_nodes >= 2
  /\ c.max_edges >= 1
  /\ FEATURE_DIM >= 1
  /\ \A rate \in {EPS_W, EPS_N, ALPHA_FIXED, BETA_FIXED} :
       0 < rate /\ rate <= FIXED_POINT_SCALE
  /\ c.max_age >= 0
  /\ c.lambda_ >= 1

\* C11: a configuration violating one of the constraints is rejected when the
\* engine is constructed: no engine exists with such a configuration, and no
\* method runs on one.
C11_InvalidConfigRejected ==
  /\ (call.op = "__init__" /\ ret.raised = "none") => ValidConfig(cfg)
  /\ call.op \in {"initialize", "train_step"} => ValidConfig(pre.cfg)

\* The later failure of a configuration that construction accepted: a step
\* that raised on lambda_ = 0.
AcceptedConfigFailsLater ==
  /\ StepRan
  /\ ~ValidConfig(cfg)
  /\ ret.raised = "ZeroDivisionError"

\* max(FIXED_POINT_MIN, min(FIXED_POINT_MAX, a + b)): the sum clamped to the
\* int32 range.
SaturatingAdd(a, b) ==
  IF b > 0 /\ a > FIXED_POINT_MAX - b THEN FIXED_POINT_MAX
  ELSE IF b < 0 /\ a < FIXED_POINT_MIN - b THEN FIXED_POINT_MIN
       ELSE a + b

\* C12: the values a step stores into the winner's error accumulator and into
\* the winner's weights are the exact results clamped to the int32 range
\* (errors[s1] + dist_sq, weight + fixed_mul(eps_w, delta)), never a wrapped
\* value, and no overflow error is raised; stated for the configurations that
\* satisfy the documented constraints.
C12_StoredValuesSaturate ==
  (StepRan /\ ValidConfig(cfg)) =>
    /\ AtRefresh.errors[Winner[1]] =
         SaturatingAdd(pre.errors[Winner[1]],
                       distance_squared(pre, Winner[1], call.sample))
    /\ \A d \in Dims :
         AtRefresh.weights[Winner[1]][d] =
           SaturatingAdd(pre.weights[Winner[1]][d],
                         fixed_mul(EPS_W, float_to_fixed(call.sample[d])
                                            - pre.weights[Winner[1]][d]))
    /\ ret.raised # "OverflowError"

\* The accumulated error of a node, a sum of squared distances, is negative
\* when a step has ended.
NegativeErrorStored ==
  /\ StepRan
  /\ ValidConfig(cfg)
  /\ ret.raised = "none"
  /\ \E i \in 0..n_nodes - 1 : errors[i] < 0

\* The call `op` has returned or raised.
Returned(op) == call.op = op /\ call.returned

\* An exact integer below 2^47 in magnitude as three limbs, h2 * 2^32 +
\* h1 * 2^16 + h0 with 0 <= h1, h0 < 2^16 and a signed h2.
Wide(a) ==
  [h2 |-> IF a < 0 THEN -1 ELSE 0,
   h1 |-> (a \div 65536) % 65536,
   h0 |-> a % 65536]

WideAdd(x, y) ==
  LET s0 == x.h0 + y.h0
      s1 == x.h1 + y.h1 + (s0 \div 65536)
  IN [h2 |-> x.h2 + y.h2 + (s1 \div 65536), h1 |-> s1 % 65536, h0 |-> s0 % 65536]

WideSub(x, y) ==
  LET s0 == x.h0 - y.h0
      s1 == x.h1 - y.h1 + (s0 \div 65536)
  IN [h2 |-> x.h2 - y.h2 + (s1 \div 65536), h1 |-> s1 % 65536, h0 |-> s0 % 65536]

\* x * d for a digit 0 <= d <= 256.
WideScale(x, d) ==
  LET s0 == x.h0 * d
      s1 == x.h1 * d + (s0 \div 65536)
  IN [h2 |-> x.h2 * d + (s1 \div 65536), h1 |-> s1 % 65536, h0 |-> s0 % 65536]

\* The exact product a * b of two int32 values, by the base-256 expansion of
\* b: a * b = 256 * (a * (b div 256)) + a * (b mod 256).
RECURSIVE ExactProduct(_, _)
ExactProduct(a, b) ==
  IF b = 0 THEN Wide(0)
  ELSE IF b = -1 THEN WideSub(Wide(0), Wide(a))
       ELSE WideAdd(WideScale(ExactProduct(a, b \div 256), 256),
                    WideScale(Wide(a), b % 256))

\* The exact value w shifted right by 16 bits (arithmetic shift: the floor),
\* then clamped to the int32 range.
ShiftedAndClamped(w) ==
  IF w.h2 >= 32768 THEN FIXED_POINT_MAX
  ELSE IF w.h2 < -32768 THEN FIXED_POINT_MIN
       ELSE w.h2 * 65536 + w.h1

\* C13: fixed_mul(a, b) is the exact product a * b shifted right by 16 bits
\* and clamped to [FIXED_POINT_MIN, FIXED_POINT_MAX]; the result is an int32.
C13_FixedMulExactShiftClamp ==
  Returned("fixed_mul") =>
    /\ ret.raised = "none"
    /\ ret.value = ShiftedAndClamped(ExactProduct(call.args[1], call.args[2]))
    /\ FIXED_POINT_MIN <= ret.value /\ ret.value <= FIXED_POINT_MAX

\* A product beyond the range, cut by the clamp.
C13_Witness ==
  /\ Returned("fixed_mul")
  /\ ExactProduct(call.args[1], call.args[2]).h2 >= 32768
  /\ ret.value = FIXED_POINT_MAX

\* A negative product that is not a multiple of 2^16 and stays in range: the
\* shift rounds it down.
NegativeProductRoundedDown ==
  /\ Returned("fixed_mul")
  /\ ExactProduct(call.args[1], call.args[2]).h2 < 0
  /\ ExactProduct(call.args[1], call.args[2]).h0 # 0
  /\ ret.value > FIXED_POINT_MIN
  /\ ret.value < -1

\* The sign of an exact three-limb value.
WideNegative(w) == w.h2 < 0
WidePositive(w) == w.h2 > 0 \/ (w.h2 = 0 /\ (w.h1 > 0 \/ w.h0 > 0))

\* (a << 16) - q * b, exactly.
DivisionRest(a, b, q) ==
  WideSub([h2 |-> a \div 65536, h1 |-> a % 65536, h0 |-> 0], ExactProduct(q, b))

\* C14: fixed_div(a, 0) is FIXED_POINT_MAX for a >= 0 and FIXED_POINT_MIN for
\* a < 0; for b # 0 the result r is the integer (floor) quotient of a << 16 by
\* b, clamped to the int32 range: r is not above the quotient unless it is
\* FIXED_POINT_MIN, and r + 1 is above the quotient unless r is
\* FIXED_POINT_MAX. No call raises.
C14_FixedDivQuotientClamp ==
  Returned("fixed_div") =>
    /\ ret.raised = "none"
    /\ call.args[2] = 0 =>
         ret.value = IF call.args[1] >= 0 THEN FIXED_POINT_MAX ELSE FIXED_POINT_MIN
    /\ call.args[2] > 0 =>
         /\ ret.value > FIXED_POINT_MIN =>
              ~WideNegative(DivisionRest(call.args[1], call.args[2], ret.value))
         /\ ret.value < FIXED_POINT_MAX =>
              WideNegative(DivisionRest(call.args[1], call.args[2], ret.value + 1))
    /\ call.args[2] < 0 =>
         /\ ret.value > FIXED_POINT_MIN =>
              ~WidePositive(DivisionRest(call.args[1], call.args[2], ret.value))
         /\ ret.value < FIXED_POINT_MAX =>
              WidePositive(DivisionRest(call.args[1], call.args[2], ret.value + 1))

\* A negative quotient that is not an integer and stays in range: the
\* division rounds it down.
C14_Witness ==
  /\ Returned("fixed_div")
  /\ call.args[1] > 0 /\ call.args[2] < 0
  /\ DivisionRest(call.args[1], call.args[2], ret.value) # Wide(0)
  /\ ret.value > FIXED_POINT_MIN
  /\ ret.value < -1

\* A division by zero of a negative value.
NegativeDividedByZero ==
  /\ Returned("fixed_div")
  /\ call.args[1] < 0 /\ call.args[2] = 0
  /\ ret.value = FIXED_POINT_MIN

\* A quotient beyond the range, cut by the clamp.
QuotientClamped ==
  /\ Returned("fixed_div")
  /\ call.args[1] = FIXED_POINT_MAX /\ call.args[2] = 1
  /\ ret.value = FIXED_POINT_MAX

\* m * 2^k clamped to the int32 range, by k saturating doublings (31 of them
\* take every m # 0 to a range limit).
RECURSIVE SaturatingShift(_, _)
SaturatingShift(m, k) ==
  IF k = 0 THEN m
  ELSE SaturatingShift(SaturatingAdd(m, m), Min2(k, 31) - 1)

\* m / 2^j truncated toward zero, by j halvings toward zero (31 of them take
\* every |m| < 2^31 to 0).
RECURSIVE TruncatingShift(_, _)
TruncatingShift(m, j) ==
  IF j = 0 THEN m
  ELSE TruncatingShift(IF m >= 0 THEN m \div 2 ELSE -((-m) \div 2), Min2(j, 31) - 1)

\* x * 65536 truncated toward zero and clamped to the int32 range.
ScaledTruncatedClamped(x) ==
  IF x.e + 16 >= 0 THEN SaturatingShift(x.m, x.e + 16)
  ELSE TruncatingShift(x.m, -(x.e + 16))

\* C15: float_to_fixed(x) returns x * 65536 truncated toward zero and clamped
\* to [FIXED_POINT_MIN, FIXED_POINT_MAX]: exactly a range limit for every x
\* whose scaled value is beyond the range (the same value on every call: the
\* result is a function of x).
C15_FloatToFixedTruncClamp ==
  Returned("float_to_fixed") =>
    /\ ret.raised = "none"
    /\ ret.value = ScaledTruncatedClamped(call.args[1])

\* C15 for the x whose product x * 65536 is a finite float.
FloatToFixedOfFiniteProduct ==
  (Returned("float_to_fixed") /\ ~ScaledIsInfinite(call.args[1])) =>
    /\ ret.raised = "none"
    /\ ret.value = ScaledTruncatedClamped(call.args[1])

\* A value far beyond the range that came back as FIXED_POINT_MAX.
FarValueClamped ==
  /\ Returned("float_to_fixed")
  /\ call.args[1].e > 900
  /\ ret.raised = "none"
  /\ ret.value = FIXED_POINT_MAX

\* x * 65536 lies within [FIXED_POINT_MIN, FIXED_POINT_MAX].
ScaledInRange(x) ==
  LET k == x.e + 16
  IN \/ k <= 0
     \/ x.m = 0
     \/ k < 31 /\ -(2^(31 - k)) <= x.m /\ x.m <= FIXED_POINT_MAX \div 2^k

\* floor and ceiling of m / 2^j for j >= 1 and |m| < 2^31.
FloorShift(m, j) ==
  IF j >= 31 THEN (IF m >= 0 THEN 0 ELSE -1) ELSE m \div 2^j
CeilingShift(m, j) ==
  IF j >= 31 THEN (IF m > 0 THEN 1 ELSE 0) ELSE -((-m) \div 2^j)

\* |y - x| <= 1/65536 for a float y that is a multiple of 1/65536 within the
\* Q16.16 range and a float x whose scaled value is within the range: with
\* v = y * 65536, v - 1 <= x * 65536 <= v + 1.
WithinOneUnit(y, x) ==
  /\ y.e + 16 >= 0
  /\ ScaledInRange(y)
  /\ LET v == SaturatingShift(y.m, y.e + 16)
         k == x.e + 16
     IN IF k >= 0
        THEN LET scaled == x.m * 2^(IF x.m = 0 THEN 0 ELSE k)
             IN \/ v = scaled
                \/ scaled < FIXED_POINT_MAX /\ v = scaled + 1
                \/ scaled > FIXED_POINT_MIN /\ v = scaled - 1
        ELSE /\ v <= FloorShift(x.m, -k) + 1
             /\ CeilingShift(x.m, -k) - 1 <= v

\* C16: for x whose scaled value is within the int32 range,
\* fixed_to_float(float_to_fixed(x)) differs from x by at most 1/65536.
C16_RoundTripWithinOneUnit ==
  (Returned("fixed_to_float") /\ ScaledInRange(call.of)) =>
    /\ ret.raised = "none"
    /\ WithinOneUnit(ret.value, call.of)

\* The round trip of an x that is not a multiple of 1/65536 and whose
\* conversion is not 0: the truncation lost a fraction of a unit.
C16_Witness ==
  /\ Returned("fixed_to_float")
  /\ call.of.e + 16 < 0 /\ call.of.e + 16 > -31
  /\ call.of.m % 2^(-(call.of.e + 16)) # 0
  /\ call.of.m < 0
  /\ ret.value.m # 0
  /\ ret.value.m = call.args[1]

\* The guess that iteration i of the last fixed_sqrt call started from.
GuessBefore(i) ==
  IF i = 1 THEN FirstGuess(call.args[1]) ELSE ret.new_guesses[i - 1]

\* C17: fixed_sqrt(x) returns 0 for x <= 0 without iterating; for x > 0 it
\* runs at most 10 Newton iterations, goes on only while the new guess
\* differs from the guess by 2 or more, stops at the first iteration whose
\* new guess differs by less than 2, and returns a result: the guess it
\* stopped at, or the tenth new guess.
C17_SqrtTerminates ==
  Returned("fixed_sqrt") =>
    /\ ret.raised = "none"
    /\ call.args[1] <= 0 => (ret.value = 0 /\ ret.new_guesses = << >>)
    /\ call.args[1] > 0 =>
         /\ Len(ret.new_guesses) >= 1
         /\ Len(ret.new_guesses) <= 10
         /\ \A i \in 1..Len(ret.new_guesses) - 1 :
              Abs(ret.new_guesses[i] - GuessBefore(i)) >= 2
         /\ Len(ret.new_guesses) < 10 =>
              Abs(ret.new_guesses[Len(ret.new_guesses)]
                    - GuessBefore(Len(ret.new_guesses))) < 2
         /\ ret.value =
              IF Abs(ret.new_guesses[Len(ret.new_guesses)]
                       - GuessBefore(Len(ret.new_guesses))) < 2
              THEN GuessBefore(Len(ret.new_guesses))
              ELSE ret.new_guesses[Len(ret.new_guesses)]

\* A call that stopped early, after more than one iteration.
C17_Witness ==
  /\ Returned("fixed_sqrt")
  /\ call.args[1] > 0
  /\ Len(ret.new_guesses) > 1
  /\ Len(ret.new_guesses) < 10

\* A call that used all 10 iterations without its guesses coming within 2.
SqrtIterationsExhausted ==
  /\ Returned("fixed_sqrt")
  /\ Len(ret.new_guesses) = 10
  /\ Abs(ret.new_guesses[10] - GuessBefore(10)) >= 2

\* A call on a negative argument.
SqrtOfNegative ==
  /\ Returned("fixed_sqrt")
  /\ call.args[1] < 0
  /\ ret.value = 0

\* The squared distance from node i to the sample of the last step, when the
\* step started.
StepDistance(i) == distance_squared(pre, i, call.sample)

TwoNearestUpToTies ==
  StepRan =>
    /\ Winner[1] \in 0..pre.n_nodes - 1
    /\ Winner[2] \in 0..pre.n_nodes - 1
    /\ Winner[1] # Winner[2]
    /\ \A i \in 0..pre.n_nodes - 1 : StepDistance(Winner[1]) <= StepDistance(i)
    /\ \A i \in (0..pre.n_nodes - 1) \ {Winner[1]} :
         StepDistance(Winner[2]) <= StepDistance(i)

\* A step on a valid configuration whose two nearest nodes were at the same
\* distance and came back with the higher index first.
TieRankedHigherIndexFirst ==
  /\ StepRan
  /\ ValidConfig(cfg)
  /\ StepDistance(Winner[1]) = StepDistance(Winner[2])
  /\ Winner[1] > Winner[2]

\* Every pair that get_edges_as_list returns for engine st has its first
\* endpoint below its second.
EdgesOrdered(st) ==
  \A k \in 1..Len(get_edges_as_list(st)) :
    get_edges_as_list(st)[k][1] < get_edges_as_list(st)[k][2]

\* C19: in every reachable state each stored edge has its first endpoint
\* strictly below its second, so get_edges_as_list returns only pairs (a, b)
\* with a < b: for the current engine, and in the last step before
\* remove_isolated_nodes renumbered the nodes and before insert_node ran.
C19_EdgesStoredOrdered ==
  /\ EdgesOrdered(Self)
  /\ \A i \in 0..n_edges - 1 : edge_nodes[i][1] < edge_nodes[i][2]
  /\ StepRan => (EdgesOrdered(PreCompaction) /\ EdgesOrdered(AtGrowth))

\* A step given s1 > s2 whose compaction renumbered a node that keeps an edge
\* and whose insertion stored the two edges of the new node.
C19_Witness ==
  /\ StepRan
  /\ Winner[1] > Winner[2]
  /\ \E n \in 0..PreCompaction.n_nodes - 1 :
       Mapping(PreCompaction, n) \notin {-1, n}
  /\ n_nodes = AtGrowth.n_nodes + 1
  /\ Len(get_edges_as_list(Self)) = 2
  /\ \A k \in 1..2 : get_edges_as_list(Self)[k][2] = n_nodes - 1

\* C20: get_memory_usage reports nodes_bytes = n_nodes * (feature_dim * 4 + 4),
\* edges_bytes = n_edges * 6, and total_bytes equal to the sum of those two
\* figures, for the current active counts.
C20_MemoryUsageIsNodesPlusEdges ==
  /\ get_memory_usage(Self).nodes_bytes = n_nodes * (FEATURE_DIM * 4 + 4)
  /\ get_memory_usage(Self).edges_bytes = n_edges * 6
  /\ get_memory_usage(Self).total_bytes =
       get_memory_usage(Self).nodes_bytes + get_memory_usage(Self).edges_bytes

\* The two per-kind figures alone are as claimed.
MemoryUsagePerKind ==
  /\ get_memory_usage(Self).nodes_bytes = n_nodes * (FEATURE_DIM * 4 + 4)
  /\ get_memory_usage(Self).edges_bytes = n_edges * 6
  /\ get_memory_usage(Self).total_bytes =
       get_memory_usage(Self).nodes_bytes
         + get_memory_usage(Self).edges_bytes + OVERHEAD

\* A grown network (3 nodes, 2 edges) whose reported total is 148, not 48.
TotalIncludesOverhead ==
  /\ n_nodes = 3 /\ n_edges = 2
  /\ get_memory_usage(Self).total_bytes = 148

\* The nodes of engine st that are an endpoint of a stored edge.
Survivors(st) ==
  {n \in 0..st.n_nodes - 1 :
     \E i \in 0..st.n_edges - 1 : n \in {st.edge_nodes[i][1], st.edge_nodes[i][2]}}

\* out is st compacted through the index mapping f: f numbers the survivors
\* 0, 1, ... in their original order, every survivor's weight vector and error
\* sit at its new index, every edge endpoint is rewritten through f, and the
\* edge count and the edge ages are those of st.
CompactedThrough(st, out, f) ==
  /\ out.n_nodes = Cardinality(Survivors(st))
  /\ {f[n] : n \in Survivors(st)} = 0..out.n_nodes - 1
  /\ \A a, b \in Survivors(st) : a < b => f[a] < f[b]
  /\ \A n \in Survivors(st) :
       /\ out.weights[f[n]] = st.weights[n]
       /\ out.errors[f[n]] = st.errors[n]
  /\ out.n_edges = st.n_edges
  /\ out.edge_ages = st.edge_ages
  /\ \A i \in 0..st.n_edges - 1 :
       out.edge_nodes[i] = <<f[st.edge_nodes[i][1]], f[st.edge_nodes[i][2]]>>

\* remove_isolated_nodes on engine st does what C21 says, and a second pass
\* finds nothing left to remove.
CompactsExactly(st) ==
  /\ \E f \in [Survivors(st) -> 0..st.n_nodes - 1] :
       CompactedThrough(st, remove_isolated_nodes(st), f)
  /\ Survivors(remove_isolated_nodes(st)) =
       0..remove_isolated_nodes(st).n_nodes - 1

\* C21: remove_isolated_nodes removes exactly the nodes without an incident
\* edge in one pass, keeps the survivors in their original order, moves each
\* survivor's weight vector and error together to its new index, and rewrites
\* every edge endpoint through the old-to-new mapping, leaving n_edges and the
\* edge ages unchanged: for the compaction of the last step, and for
\* remove_isolated_nodes called on the current engine.
C21_CompactionExact ==
  /\ CompactsExactly(Self)
  /\ StepRan => CompactsExactly(PreCompaction)

\* A step whose compaction removed node 0 and moved a survivor, with a
\* non-zero error and a weight vector unlike the one it replaced, to a lower
\* index, keeping an aged edge.
C21_Witness ==
  /\ StepRan
  /\ 0 \notin Survivors(PreCompaction)
  /\ \E n \in Survivors(PreCompaction) :
       /\ PreCompaction.errors[n] # 0
       /\ PreCompaction.errors[n] # PreCompaction.errors[n - 1]
       /\ PreCompaction.weights[n] # PreCompaction.weights[n - 1]
       /\ AtGrowth.errors[n - 1] = PreCompaction.errors[n]
       /\ AtGrowth.weights[n - 1] = PreCompaction.weights[n]
  /\ \E i \in 0..AtGrowth.n_edges - 1 : AtGrowth.edge_ages[i] > 0

\* insert_node called on engine st inserts a node.
Inserts(st) ==
  /\ 0 < st.n_nodes /\ st.n_nodes < st.cfg.max_nodes
  /\ get_neighbors(st, ArgMaxError(st)) # << >>

\* The maximum-error node q of st and its maximum-error neighbour f.
NodeQ(st) == ArgMaxError(st)
NodeF(st) == MaxErrorNeighbor(st, get_neighbors(st, ArgMaxError(st)))

\* Nodes a and b are joined by a stored edge of engine st whose age is 0.
JoinedAtAgeZero(st, a, b) ==
  \E i \in 0..st.n_edges - 1 :
    /\ {st.edge_nodes[i][1], st.edge_nodes[i][2]} = {a, b}
    /\ st.edge_ages[i] = 0

\* floor((a + b) / 2), computed without forming a + b.
Midpoint(a, b) == (a \div 2) + (b \div 2) + (((a % 2) + (b % 2)) \div 2)

\* The coordinates of the node r = st.n_nodes of engine out are the midpoints
\* of those of q and f in st.
NewNodeAtMidpoint(st, out) ==
  \A d \in Dims :
    out.weights[st.n_nodes][d] =
      Midpoint(st.weights[NodeQ(st)][d], st.weights[NodeF(st)][d])

\* insert_node on engine st: edge (q, f) absent, edges (q, r) and (r, f)
\* present with age 0, r at the midpoint.
InsertedBetween(st) ==
  Inserts(st) =>
    /\ ~Joined(insert_node(st).st, NodeQ(st), NodeF(st))
    /\ JoinedAtAgeZero(insert_node(st).st, NodeQ(st), st.n_nodes)
    /\ JoinedAtAgeZero(insert_node(st).st, NodeF(st), st.n_nodes)
    /\ NewNodeAtMidpoint(st, insert_node(st).st)

\* The last step called insert_node and it inserted a node.
StepInserted ==
  /\ StepRan
  /\ ret.raised = "none"
  /\ iteration % cfg.lambda_ = 0
  /\ Inserts(AtGrowth)

\* C22: whenever insert_node inserts a node r between the maximum-error node q
\* and q's maximum-error neighbour f, afterwards the edge (q, f) is absent,
\* the edges (q, r) and (r, f) are present with age 0, and each coordinate of
\* r is the midpoint of the coordinates of q and f: for insert_node called on
\* the current engine, for the insertion of the last step, and for the engine
\* that step left.
C22_InsertedBetweenQAndF ==
  ValidConfig(cfg) =>
    /\ InsertedBetween(Self)
    /\ StepInserted =>
         /\ InsertedBetween(AtGrowth)
         /\ ~Joined(Self, NodeQ(AtGrowth), NodeF(AtGrowth))
         /\ JoinedAtAgeZero(Self, NodeQ(AtGrowth), AtGrowth.n_nodes)
         /\ JoinedAtAgeZero(Self, NodeF(AtGrowth), AtGrowth.n_nodes)
         /\ NewNodeAtMidpoint(AtGrowth, Self)

\* What insert_node does on engine st: (q, f) absent, (q, r) present with age
\* 0, r at the midpoint, and (r, f) present with age 0 exactly when the edge
\* list of st was not full.
InsertedUpToCapacity(st) ==
  Inserts(st) =>
    /\ ~Joined(insert_node(st).st, NodeQ(st), NodeF(st))
    /\ JoinedAtAgeZero(insert_node(st).st, NodeQ(st), st.n_nodes)
    /\ NewNodeAtMidpoint(st, insert_node(st).st)
    /\ IF st.n_edges < st.cfg.max_edges
       THEN JoinedAtAgeZero(insert_node(st).st, NodeF(st), st.n_nodes)
       ELSE ~Joined(insert_node(st).st, NodeF(st), st.n_nodes)

InsertionUpToCapacity ==
  ValidConfig(cfg) =>
    /\ InsertedUpToCapacity(Self)
    /\ StepInserted => InsertedUpToCapacity(AtGrowth)

\* A step with a valid configuration whose insertion stored (q, r) and, on a
\* full edge list, dropped (r, f).
EdgeToFDropped ==
  /\ ValidConfig(cfg)
  /\ StepInserted
  /\ AtGrowth.n_edges = cfg.max_edges
  /\ JoinedAtAgeZero(Self, NodeQ(AtGrowth), AtGrowth.n_nodes)
  /\ ~Joined(Self, NodeF(AtGrowth), AtGrowth.n_nodes)

\* y is alpha * x for alpha = 0.5 in Q16.16, rounded down.
AlphaTimes(x, y) == 2 * y <= x /\ x <= 2 * y + 1

\* insert_node on engine st leaves error[r] = error[q] = alpha * (old error[q]).
DecayedThenCopied(st) ==
  Inserts(st) =>
    /\ insert_node(st).st.errors[st.n_nodes] = insert_node(st).st.errors[NodeQ(st)]
    /\ AlphaTimes(st.errors[NodeQ(st)], insert_node(st).st.errors[NodeQ(st)])
    /\ AlphaTimes(st.errors[NodeF(st)], insert_node(st).st.errors[NodeF(st)])

\* C23: insert_node multiplies error[q] and error[f] by alpha and only then
\* sets error[r] to the decayed error[q], so immediately after the insertion
\* error[r] = error[q] = alpha * (old error[q]): for insert_node called on the
\* current engine and for the insertion of the last step, whose end still
\* finds error[r] = error[q].
C23_DecayBeforeCopy ==
  /\ DecayedThenCopied(Self)
  /\ StepInserted =>
       /\ DecayedThenCopied(AtGrowth)
       /\ errors[AtGrowth.n_nodes] = errors[NodeQ(AtGrowth)]

\* A step whose insertion found error[q] > 1 and left the new node with half
\* of it.
C23_Witness ==
  /\ StepInserted
  /\ AtGrowth.errors[NodeQ(AtGrowth)] > 1
  /\ AtGrowth.errors[NodeF(AtGrowth)] # AtGrowth.errors[NodeQ(AtGrowth)]
  /\ insert_node(AtGrowth).st.errors[AtGrowth.n_nodes]
       = AtGrowth.errors[NodeQ(AtGrowth)] \div 2
  /\ errors[AtGrowth.n_nodes] > 0

\* The engine of the last step when its pruning loop started.
AtPruning == AgeEdges(add_edge(AtRefresh, Winner[1], Winner[2]), Winner[1])

\* The stored edges of engine st, in list order, with their ages.
EdgeRecords(st) ==
  [k \in 1..st.n_edges |->
     [nodes |-> st.edge_nodes[k - 1], age |-> st.edge_ages[k - 1]]]

\* The edge record may stay: its age does not exceed the max_age of the engine.
WithinMaxAge(rec) == rec.age <= cfg.max_age

\* C24: at the end of every train_step no stored edge has an age above
\* max_age: the step's pruning loop removes every edge whose age exceeds
\* max_age after the aging, over-age entries next to each other in the list
\* included, and keeps the others in their order.
C24_NoOverAgeEdgeAfterStep ==
  StepRan =>
    /\ \A i \in 0..n_edges - 1 : edge_ages[i] <= cfg.max_age
    /\ EdgeRecords(PreCompaction) = SelectSeq(EdgeRecords(AtPruning), WithinMaxAge)

\* A step whose pruning loop met two over-age entries next to each other and
\* removed both, keeping another edge.
C24_Witness ==
  /\ StepRan
  /\ n_edges >= 1
  /\ \E k \in 1..AtPruning.n_edges - 1 :
       /\ ~WithinMaxAge(EdgeRecords(AtPruning)[k])
       /\ ~WithinMaxAge(EdgeRecords(AtPruning)[k + 1])
  /\ PreCompaction.n_edges <= AtPruning.n_edges - 2

\* The last step's test `iteration % lambda_ == 0 and n_nodes < max_nodes`, on
\* the counter after the increment and the node count after the compaction.
InsertionDue ==
  iteration % cfg.lambda_ = 0 /\ AtGrowth.n_nodes < cfg.max_nodes

\* The last step ended as a step that called insert_node after the compaction
\* ends: with what insert_node raised, or with its nodes and edges.
EndedAsWithInsertNode ==
  /\ ret.raised = insert_node(AtGrowth).raised
  /\ n_nodes = insert_node(AtGrowth).st.n_nodes
  /\ get_edges_as_list(Self) = get_edges_as_list(insert_node(AtGrowth).st)
  /\ \A n \in 0..n_nodes - 1 : weights[n] = insert_node(AtGrowth).st.weights[n]

\* The last step ended as a step that did not call insert_node.
EndedAsWithoutInsertNode ==
  /\ ret.raised = "none"
  /\ n_nodes = AtGrowth.n_nodes
  /\ get_edges_as_list(Self) = get_edges_as_list(AtGrowth)

\* C25: the iteration counter goes up by exactly 1 in every train_step that
\* runs with at least 2 nodes and never goes down; the step calls insert_node
\* if and only if the counter after the increment is a multiple of lambda_ and
\* n_nodes after the compaction is below max_nodes; so at most one node is
\* inserted per lambda_ executed steps.
C25_CounterAndInsertionPeriod ==
  ValidConfig(cfg) =>
    /\ iteration >= pre.iteration
    /\ ~StepRan => iteration = pre.iteration
    /\ StepRan =>
         /\ iteration = pre.iteration + 1
         /\ n_nodes \in {AtGrowth.n_nodes, AtGrowth.n_nodes + 1}
         /\ n_nodes = AtGrowth.n_nodes + 1 => InsertionDue
         /\ IF InsertionDue THEN EndedAsWithInsertNode ELSE EndedAsWithoutInsertNode
    /\ n_nodes <= 2 + iteration \div cfg.lambda_

\* The second executed step of an engine with lambda_ = 2, which inserted the
\* first node, after a first step that inserted none.
C25_Witness ==
  /\ StepInserted
  /\ cfg.lambda_ = 2
  /\ iteration = 2
  /\ pre.n_nodes = 2
  /\ n_nodes = 3

\* The nodes joined to node n by a stored edge of engine st.
AdjacentTo(st, n) ==
  {m \in 0..st.n_nodes - 1 : m # n /\ Joined(st, m, n)}

\* Where the last step's compaction put node n: the number of surviving nodes
\* below it.
NewIndexOf(n) == Cardinality({m \in Survivors(PreCompaction) : m < n})

\* The nodes that were there when the last step started, survived it, and are
\* neither the winner nor adjacent to the winner at that time.
Bystanders ==
  {n \in Survivors(PreCompaction) :
     n < pre.n_nodes /\ n # Winner[1] /\ n \notin AdjacentTo(pre, Winner[1])}

\* C26: in one train_step only the winner s1 and the nodes adjacent to s1
\* before the step's add_edge(s1, s2) have their weights changed: every other
\* surviving node, s2 included when it was not yet a neighbour of s1, ends the
\* step with the weight vector it had when the step started.
C26_OnlyWinnerAndNeighboursMove ==
  StepRan =>
    \A n \in Bystanders : weights[NewIndexOf(n)] = pre.weights[n]

\* A step whose s2 was not a neighbour of s1, did not sit on the sample, and
\* survived, in which the winner moved.
C26_Witness ==
  /\ StepRan
  /\ Winner[2] \in Bystanders
  /\ \E d \in Dims : pre.weights[Winner[2]][d] # float_to_fixed(call.sample[d])
  /\ weights[NewIndexOf(Winner[2])] = pre.weights[Winner[2]]
  /\ Winner[1] \in Survivors(PreCompaction)
  /\ weights[NewIndexOf(Winner[1])] # pre.weights[Winner[1]]

\* x << 16, the exact Q16.16 radicand of fixed_sqrt(x), as three limbs.
Radicand(x) == [h2 |-> x \div 65536, h1 |-> x % 65536, h0 |-> 0]

\* v differs from floor(sqrt(x << 16)) by less than 2:
\* (v - 1)^2 <= x << 16 < (v + 2)^2.
WithinTwoOfRoot(x, v) ==
  /\ v >= 0
  /\ v >= 1 => ~WideNegative(WideSub(Radicand(x), ExactProduct(v - 1, v - 1)))
  /\ WidePositive(WideSub(ExactProduct(v + 2, v + 2), Radicand(x)))

\* C27: ten Newton-Raphson iterations are enough: for every positive int32 x
\* the value fixed_sqrt(x) returns differs from the exact fixed-point square
\* root floor(sqrt(x * 65536)) by less than 2 units in the last place.
C27_SqrtConvergedInTenIterations ==
  (Returned("fixed_sqrt") /\ call.args[1] > 0) =>
    WithinTwoOfRoot(call.args[1], ret.value)

\* The same for every positive x other than 2 and 3.
SqrtConvergedFromFour ==
  (Returned("fixed_sqrt") /\ call.args[1] > 0 /\ call.args[1] \notin {2, 3}) =>
    WithinTwoOfRoot(call.args[1], ret.value)

\* fixed_sqrt(2) has returned 364 after its tenth iteration; the root is 362.
SqrtOfTwoNotConverged ==
  /\ Returned("fixed_sqrt")
  /\ call.args[1] = 2
  /\ Len(ret.new_guesses) = 10
  /\ ret.value = 364
  /\ WithinTwoOfRoot(2, 362)
  /\ ~WithinTwoOfRoot(2, 364)

\* C28: train_step never calls insert_node on an empty network: a step whose
\* compaction leaves n_nodes = 0 while the iteration counter reaches a
\* multiple of lambda_ skips the insertion and raises nothing, so the
\* maximum-error search of insert_node always has an active node.
C28_NoInsertionOnEmptyNetwork ==
  (ValidConfig(cfg) /\ StepRan) =>
    /\ ret.raised = "none"
    /\ InsertionDue => AtGrowth.n_nodes > 0

\* Every step with a valid configuration that raised is a step whose
\* compaction left no node and whose insertion was due; every other step
\* returned normally.
RaisesExactlyOnEmptyInsertion ==
  (ValidConfig(cfg) /\ StepRan) =>
    (ret.raised # "none" <=> (InsertionDue /\ AtGrowth.n_nodes = 0))

\* A step with max_age = 0 and lambda_ = 1 that pruned the only edge, removed
\* both nodes and raised ValueError from the search over no node.
InsertionOnEmptyNetworkRaised ==
  /\ ValidConfig(cfg)
  /\ StepRan
  /\ cfg.max_age = 0
  /\ AtGrowth.n_nodes = 0
  /\ InsertionDue
  /\ ret.raised = "ValueError"
  /\ n_nodes = 0

\* Every node of engine st that has an edge is joined to a different node that
\* has an edge too.
SurvivorsComeInPairs(st) ==
  \A n \in Survivors(st) : \E m \in Survivors(st) : m # n /\ Joined(st, n, m)

\* C29: n_nodes is never exactly 1 in a state reached by initialize and
\* train_step: the compaction leaves no node or at least two, because every
\* surviving node is an endpoint of an edge whose other endpoint is a different
\* node that survives as well.
C29_NeverExactlyOneNode ==
  /\ n_nodes # 1
  /\ remove_isolated_nodes(Self).n_nodes # 1
  /\ StepRan =>
       /\ SurvivorsComeInPairs(PreCompaction)
       /\ AtGrowth.n_nodes # 1

\* A step whose compaction removed one of three nodes and left two.
C29_Witness ==
  /\ StepRan
  /\ PreCompaction.n_nodes = 3
  /\ Cardinality(Survivors(PreCompaction)) = 2
  /\ AtGrowth.n_nodes = 2
  /\ n_nodes >= 2

\* The last call was _remove_nodes, made by train_with_pruning.
Pruned == call.op = "_remove_nodes"

\* C30: PrunedGNG._remove_nodes compacts the per-node state consistently:
\* every kept node's weight vector and its error accumulator both sit at the
\* node's new, compacted index after the call, so each surviving node has the
\* weight and the error it had before.
C30_RemoveNodesMovesWeightsAndErrors ==
  Pruned =>
    \A n \in KeepIndices(call.remove_mask) :
      /\ weights[NewIndex(call.remove_mask, n)] = pre.weights[n]
      /\ errors[NewIndex(call.remove_mask, n)] = pre.errors[n]

\* What _remove_nodes does: the kept weight vectors are at their new indices,
\* the error array is as it was.
WeightsMovedErrorsLeft ==
  Pruned =>
    /\ \A n \in KeepIndices(call.remove_mask) :
         weights[NewIndex(call.remove_mask, n)] = pre.weights[n]
    /\ errors = pre.errors
    /\ n_nodes = Cardinality(KeepIndices(call.remove_mask))

\* A call that removed node 1 of five: node 2 is now node 1, with its weight
\* vector and with the error of the removed node.
KeptNodeGotRemovedNodesError ==
  /\ Pruned
  /\ call.remove_mask[1]
  /\ ~call.remove_mask[2]
  /\ weights[1] = pre.weights[2]
  /\ errors[1] = pre.errors[1]
  /\ pre.errors[1] # pre.errors[2]
====
